---- MODULE Spec2Model ----
(***************************************************************************)
(* Switch-level logic simulator (sirc).                                    *)
(*                                                                         *)
(* The module models the incremental DeviceSimulator of                    *)
(* src/sirc/simulator/device.py together with the parts of the core it     *)
(* runs on: the four-valued LogicValue and its mask-and-table resolve_all  *)
(* (core/logic_value.py), the Node connection sets (core/node.py), the     *)
(* single-terminal devices (core/device.py) and the NMOS / PMOS conduction *)
(* rules (core/transistor.py).                                             *)
(*                                                                         *)
(* A behaviour starts in the state a test or driver has built by           *)
(* registering devices and transistors and connecting nodes (one of the    *)
(* circuits of Catalogue), and then calls Input.set_value, build_topology  *)
(* and tick in any order.  tick is a loop that may not end, so one         *)
(* iteration of its body is one step.                                      *)
(***************************************************************************)
EXTENDS Integers, Sequences, FiniteSets, TLC

(***************************************************************************)
(* Bounds of the model.                                                    *)
(***************************************************************************)
\* Inverter chains have 2, 4, ..., 2 * MaxChainPairs stages.
MaxChainPairs == 1
\* Ring oscillators have 1, 3, ..., 2 * MaxRingHalf + 1 stages.
MaxRingHalf == 1
\* The iteration counter of tick stops counting at IterCap.
IterCap == 24
\* resolve_all is called on sequences of at most MaxLen values.
MaxLen == 3
\* Nodes handed to a transistor constructor have ids 0 .. MaxNodeId.
MaxNodeId == 2
\* resolve_all_byte is called on the masks 0 .. MaxByte: an 8-bit integer.
MaxByte == 255

(***************************************************************************)
(* LogicValue (core/logic_value.py): the encoding is the 3-bit mask.       *)
(***************************************************************************)
ZERO == 1
ONE == 2
X == 4
Z == 0

LogicValue == {ZERO, ONE, X, Z}

\* Two slips in the table: a ZERO | ONE conflict read as ONE, and an empty mask
\* read as X.
RESOLVE_TABLE_XtoOne == <<Z, ZERO, ONE, ONE, X, X, X, X>>
RESOLVE_TABLE_ZtoX == <<X, ZERO, ONE, X, X, X, X, X>>
\* RESOLVE_TABLE[mask] of the source is RESOLVE_TABLE[mask + 1] here.
RESOLVE_TABLE == <<Z, ZERO, ONE, X, X, X, X, X>>

\* Bit i of a 3-bit mask, and the "|" of two masks.
Bit(v, i) == (v \div (2 ^ i)) % 2
BitOr(a, b) ==
    LET o(i) == IF Bit(a, i) = 1 \/ Bit(b, i) = 1 THEN 2 ^ i ELSE 0
    IN  o(0) + o(1) + o(2)

\* Two slips in resolve: the first driver wins a conflict; X gives way to
\* a driven value instead of absorbing it.
resolve_LeftWins(self, other) ==
    IF self = other \/ other = Z THEN self
    ELSE IF self = Z THEN other
    ELSE self
resolve_XYields(self, other) ==
    IF self = other \/ other = Z THEN self
    ELSE IF self = Z THEN other
    ELSE IF self = X THEN other
    ELSE IF other = X THEN self
    ELSE X

\* LogicValue.resolve: the two-driver table.
resolve(self, other) ==
    IF self = other \/ other = Z THEN self
    ELSE IF self = Z THEN other
    ELSE X

\* The loop of resolve_all: OR every non-zero value into the mask.
RECURSIVE resolve_all_mask(_, _)
resolve_all_mask(values, mask) ==
    IF values = <<>> THEN mask
    ELSE resolve_all_mask(Tail(values),
                          IF Head(values) # 0 THEN BitOr(mask, Head(values))
                          ELSE mask)

\* LogicValue.resolve_all over an iterable, given as the sequence iterated.
resolve_all(values) == RESOLVE_TABLE[resolve_all_mask(values, 0) + 1]

\* The behaviour of an earlier revision: no values, no result.
resolve_all_call_EmptyRaises(values) ==
    IF values = <<>> THEN [outcome |-> "ValueError", value |-> Z]
    ELSE [outcome |-> "return", value |-> resolve_all(values)]

\* A call of resolve_all as its caller sees it: the function has no raise
\* statement, it returns the table entry for every iterable of LogicValues.
resolve_all_call(values) == [outcome |-> "return", value |-> resolve_all(values)]

\* LogicValue.resolve_all_byte(mask) as its caller sees it: RESOLVE_TABLE[mask]
\* on a tuple of eight entries, where an index of -8 .. -1 counts from the
\* end and any other index outside 0 .. 7 raises IndexError.
resolve_all_byte_call(mask) ==
    IF mask \in 0 .. 7
    THEN [outcome |-> "return", value |-> RESOLVE_TABLE[mask + 1]]
    ELSE IF mask \in -8 .. -1
    THEN [outcome |-> "return", value |-> RESOLVE_TABLE[mask + 9]]
    ELSE [outcome |-> "IndexError", value |-> Z]

\* The orders in which the elements of the set S can be visited.
RECURSIVE Orders(_)
Orders(S) ==
    IF S = {} THEN {<<>>}
    ELSE UNION {{<<e>> \o q : q \in Orders(S \ {e})} : e \in S}

\* An iteration order of a set (a Python set is iterated in some order).
RECURSIVE SetToSeq(_)
SetToSeq(S) ==
    IF S = {} THEN <<>>
    ELSE LET e == CHOOSE e \in S : TRUE
         IN  <<e>> \o SetToSeq(S \ {e})

(***************************************************************************)
(* Transistor conduction rules (core/transistor.py).                       *)
(***************************************************************************)
\* A slip in the rule: every gate value but ZERO opens the channel.
NMOS_is_conducting_NotZero(g) == g # ZERO
NMOS_is_conducting(g) == g = ONE
PMOS_is_conducting(g) == g = ZERO

\* transistor.is_conducting() under the resolved values rv.
is_conducting(t, rv) ==
    IF t.kind = "NMOS" THEN NMOS_is_conducting(rv[t.gate])
    ELSE PMOS_is_conducting(rv[t.gate])

(***************************************************************************)
(* Transistor construction (core/transistor.py, Transistor.__init__).      *)
(* A node handed to the constructor is an object with an id and a kind;    *)
(* "is" on two nodes is equality of the objects.                           *)
(***************************************************************************)
NodeKind == {"BASE", "GATE"}

Node(node_id, kind) == [id |-> node_id, kind |-> kind]

NoTransistor == [id |-> -1]

\* A slip: the distinctness check made before the kind checks.
Transistor_init_DistinctFirst(transistor_id, kind, gate, source, drain) ==
    IF gate = source \/ gate = drain \/ source = drain
    THEN [outcome |-> "ValueError", transistor |-> NoTransistor]
    ELSE IF gate.kind # "GATE" \/ source.kind # "BASE" \/ drain.kind # "BASE"
    THEN [outcome |-> "TypeError", transistor |-> NoTransistor]
    ELSE [outcome |-> "return",
          transistor |-> [id |-> transistor_id, kind |-> kind, gate |-> gate,
                          source |-> source, drain |-> drain]]

\* A slip: the distinctness check left out.
Transistor_init_NoDistinct(transistor_id, kind, gate, source, drain) ==
    IF gate.kind # "GATE" \/ source.kind # "BASE" \/ drain.kind # "BASE"
    THEN [outcome |-> "TypeError", transistor |-> NoTransistor]
    ELSE [outcome |-> "return",
          transistor |-> [id |-> transistor_id, kind |-> kind, gate |-> gate,
                          source |-> source, drain |-> drain]]

\* NMOS(transistor_id, gate, source, drain) and PMOS(...): both run
\* Transistor.__init__ with their kind.
Transistor_init(transistor_id, kind, gate, source, drain) ==
    IF gate.kind # "GATE"
    THEN [outcome |-> "TypeError", transistor |-> NoTransistor]
    ELSE IF source.kind # "BASE"
    THEN [outcome |-> "TypeError", transistor |-> NoTransistor]
    ELSE IF drain.kind # "BASE"
    THEN [outcome |-> "TypeError", transistor |-> NoTransistor]
    ELSE IF gate = source \/ gate = drain \/ source = drain
    THEN [outcome |-> "ValueError", transistor |-> NoTransistor]
    ELSE [outcome |-> "return",
          transistor |-> [id |-> transistor_id, kind |-> kind, gate |-> gate,
                          source |-> source, drain |-> drain]]

(***************************************************************************)
(* Node connections (core/node.py): conn[n] is n._connections.             *)
(***************************************************************************)
Node_connect(conn, a, b) ==
    IF a = b THEN conn
    ELSE [conn EXCEPT ![a] = @ \cup {b}, ![b] = @ \cup {a}]

Node_disconnect(conn, a, b) ==
    IF a = b THEN conn
    ELSE [conn EXCEPT ![a] = @ \ {b}, ![b] = @ \ {a}]

(***************************************************************************)
(* Circuits.  A circuit is what a test or the profiler driver has built    *)
(* before the first build_topology: devices (core/device.py) and           *)
(* transistors, each with nodes of its own, and the wires declared with    *)
(* DeviceSimulator.connect.  Nodes are numbered in creation order.         *)
(***************************************************************************)
Device(kind, terminal) == [kind |-> kind, terminal |-> terminal]

Transistor(kind, gate) ==
    [kind |-> kind, gate |-> gate, source |-> gate + 1, drain |-> gate + 2]

Wire(a, b) == {a, b}

\* The default value a device's constructor gives its terminal
\* (VDD.__init__, GND.__init__; Node.__init__ for the others).
DeviceDefault(kind) ==
    IF kind = "VDD" THEN ONE ELSE IF kind = "GND" THEN ZERO ELSE Z

\* stats/main.py build_inverter: the devices, transistors and wires of one
\* CMOS inverter whose first node is b, fed by node inp, on rails vdd, gnd.
InverterNodes == 8
InvInp(b) == b
InvOut(b) == b + 1
InvPmos(b) == Transistor("PMOS", b + 2)
InvNmos(b) == Transistor("NMOS", b + 5)
InverterDevices(b) == {Device("PORT", InvInp(b)), Device("PORT", InvOut(b))}
InverterTransistors(b) == {InvPmos(b), InvNmos(b)}
InverterWires(b, vdd, gnd) ==
    { Wire(InvInp(b), InvPmos(b).gate), Wire(InvInp(b), InvNmos(b).gate),
      Wire(vdd, InvPmos(b).source), Wire(gnd, InvNmos(b).source),
      Wire(InvPmos(b).drain, InvOut(b)), Wire(InvNmos(b).drain, InvOut(b)) }

\* stats/main.py main(n): VDD 0, GND 1, Input 2, Probe 3, then n inverters
\* in series from the Input to the Probe.  With n = 1 this is the circuit of
\* test_tick_cmos_inverter.
ChainBase(k) == 4 + InverterNodes * k
Chain(n) ==
    [ name |-> "chain", size |-> n,
      nodes |-> 0 .. (ChainBase(n) - 1),
      devices |-> {Device("VDD", 0), Device("GND", 1), Device("INPUT", 2),
                   Device("PROBE", 3)}
                  \cup UNION {InverterDevices(ChainBase(k)) : k \in 0 .. (n - 1)},
      transistors |-> UNION {InverterTransistors(ChainBase(k)) : k \in 0 .. (n - 1)},
      wires |-> UNION {InverterWires(ChainBase(k), 0, 1) : k \in 0 .. (n - 1)}
                \cup {Wire(IF k = 0 THEN 2 ELSE InvOut(ChainBase(k - 1)),
                           InvInp(ChainBase(k))) : k \in 0 .. (n - 1)}
                \cup {Wire(IF n = 0 THEN 2 ELSE InvOut(ChainBase(n - 1)), 3)},
      loop |-> {} ]

\* A closed loop of n inverters on rails VDD 0 and GND 1, with no other
\* driver.  loop holds the nodes of the loop: the ports, gates and drains.
RingBase(k) == 2 + InverterNodes * k
Ring(n) ==
    [ name |-> "ring", size |-> n,
      nodes |-> 0 .. (RingBase(n) - 1),
      devices |-> {Device("VDD", 0), Device("GND", 1)}
                  \cup UNION {InverterDevices(RingBase(k)) : k \in 0 .. (n - 1)},
      transistors |-> UNION {InverterTransistors(RingBase(k)) : k \in 0 .. (n - 1)},
      wires |-> UNION {InverterWires(RingBase(k), 0, 1) : k \in 0 .. (n - 1)}
                \cup {Wire(InvOut(RingBase(IF k = 0 THEN n - 1 ELSE k - 1)),
                           InvInp(RingBase(k))) : k \in 0 .. (n - 1)},
      loop |-> UNION {{InvInp(RingBase(k)), InvOut(RingBase(k)),
                       InvPmos(RingBase(k)).gate, InvPmos(RingBase(k)).drain,
                       InvNmos(RingBase(k)).gate, InvNmos(RingBase(k)).drain}
                      : k \in 0 .. (n - 1)} ]

\* test_tick_with_simple_devices: an Input wired to a Probe.
Direct ==
    [ name |-> "direct", size |-> 0, nodes |-> 0 .. 1,
      devices |-> {Device("INPUT", 0), Device("PROBE", 1)},
      transistors |-> {},
      wires |-> {Wire(0, 1)},
      loop |-> {} ]

\* A VDD and a GND wired together and to a Probe; the gates of an NMOS and
\* of a PMOS lie on that net, and each channel joins an Input to a Probe.
Conflict ==
    [ name |-> "conflict", size |-> 0, nodes |-> 0 .. 11,
      devices |-> {Device("VDD", 0), Device("GND", 1), Device("PROBE", 2),
                   Device("INPUT", 3), Device("PROBE", 4), Device("PROBE", 5)},
      transistors |-> {Transistor("NMOS", 6), Transistor("PMOS", 9)},
      wires |-> {Wire(0, 1), Wire(1, 2), Wire(2, 6), Wire(2, 9),
                 Wire(3, 7), Wire(3, 10), Wire(8, 4), Wire(11, 5)},
      loop |-> {} ]

\* Pass gate: VDD on the source of an NMOS, a Probe on its drain, an Input
\* on its gate.
PassGate ==
    [ name |-> "passgate", size |-> 0, nodes |-> 0 .. 5,
      devices |-> {Device("VDD", 0), Device("INPUT", 1), Device("PROBE", 2)},
      transistors |-> {Transistor("NMOS", 3)},
      wires |-> {Wire(0, 4), Wire(5, 2), Wire(1, 3)},
      loop |-> {} ]

\* An NMOS whose drain is wired to its own gate: GND on the source, an Input
\* on the gate.  The channel joins the gate's net to the GND driver.
SelfGate ==
    [ name |-> "selfgate", size |-> 0, nodes |-> 0 .. 4,
      devices |-> {Device("INPUT", 0), Device("GND", 1)},
      transistors |-> {Transistor("NMOS", 2)},
      wires |-> {Wire(0, 2), Wire(1, 3), Wire(4, 2)},
      loop |-> {} ]

\* The pass gate with a wire declared between the source and the drain.
Bridged ==
    [ name |-> "bridged", size |-> 0, nodes |-> 0 .. 5,
      devices |-> {Device("VDD", 0), Device("INPUT", 1), Device("PROBE", 2)},
      transistors |-> {Transistor("NMOS", 3)},
      wires |-> {Wire(0, 4), Wire(4, 5), Wire(5, 2), Wire(1, 3)},
      loop |-> {} ]

Catalogue ==
    {Direct, Conflict, PassGate, SelfGate, Bridged, Chain(1)}
    \cup {Chain(2 * k) : k \in 1 .. MaxChainPairs}
    \cup {Ring(2 * k + 1) : k \in 0 .. MaxRingHalf}

(***************************************************************************)
(* The simulator (simulator/device.py).  A simulator state is a record s   *)
(* of the fields of DeviceSimulator and of its nodes:                      *)
(*   devices, transistors, nodes, gates, find_transistor   registration    *)
(*   default_value, resolved_value, connections            per node        *)
(*   node_components, dirty_node_components,                               *)
(*   find_node_component, dirty_transistors, dirty         solver          *)
(* A NodeComponent is a record [id, nodes]: an object holding the set of   *)
(* its nodes, told apart from the other objects by id, never by its nodes. *)
(***************************************************************************)
NoComponent == [n \in {} |-> {}]

\* The state after DeviceSimulator(), register_devices, register_transistors
\* and the connect calls that build circuit c.
InitialSim(c) ==
    [ devices |-> c.devices,
      transistors |-> c.transistors,
      nodes |-> c.nodes,
      gates |-> {t.gate : t \in c.transistors},
      find_transistor |->
          [g \in {t.gate : t \in c.transistors} |->
              CHOOSE t \in c.transistors : t.gate = g],
      default_value |->
          [n \in c.nodes |->
              IF \E d \in c.devices : d.terminal = n
              THEN DeviceDefault((CHOOSE d \in c.devices : d.terminal = n).kind)
              ELSE Z],
      resolved_value |-> [n \in c.nodes |-> Z],
      connections |-> [n \in c.nodes |-> {m \in c.nodes : m # n /\ Wire(n, m) \in c.wires}],
      node_components |-> {},
      dirty_node_components |-> {},
      find_node_component |-> NoComponent,
      dirty_transistors |-> {},
      dirty |-> TRUE ]

\* The inner "while stack" loop of _build_node_components and of
\* _update_node_components: stack.pop() takes the last element.
RECURSIVE Dfs(_, _, _, _)
Dfs(conn, stack, visited, comp) ==
    IF stack = <<>> THEN [visited |-> visited, comp |-> comp]
    ELSE LET node == stack[Len(stack)]
             rest == SubSeq(stack, 1, Len(stack) - 1)
         IN  IF node \in visited THEN Dfs(conn, rest, visited, comp)
             ELSE Dfs(conn,
                      rest \o SetToSeq({m \in conn[node] : m \notin visited \cup {node}}),
                      visited \cup {node},
                      comp \cup {node})

\* NodeComponent() (device.py 19-23, eq=False): an object that is equal to
\* itself only.  id tells the objects apart; it is the smallest number that
\* no object of the set live carries.
NodeComponent(live, component_nodes) ==
    [id |-> CHOOSE k \in 0 .. Cardinality(live) :
                /\ \A c \in live : c.id # k
                /\ \A j \in 0 .. (k - 1) : \E c \in live : c.id = j,
     nodes |-> component_nodes]

\* The component objects that simulator s holds.
LiveComponents(s) ==
    s.node_components \cup s.dirty_node_components
        \cup {s.find_node_component[n] : n \in DOMAIN s.find_node_component}

\* The "for start in ..." loop: one new component per start not yet
\* visited; live holds the component objects that exist.
RECURSIVE BuildComponents(_, _, _, _, _)
BuildComponents(conn, starts, visited, comps, live) ==
    IF starts = <<>> THEN comps
    ELSE IF Head(starts) \in visited
         THEN BuildComponents(conn, Tail(starts), visited, comps, live)
         ELSE LET r == Dfs(conn, <<Head(starts)>>, visited, {})
                  comp == NodeComponent(live \cup comps, r.comp)
              IN  BuildComponents(conn, Tail(starts), r.visited,
                                  comps \cup {comp}, live)

\* self._find_node_component[node] = comp, for every node of the new comps.
FindAfter(find, comps) ==
    LET visited == UNION {comp.nodes : comp \in comps}
    IN  [n \in (DOMAIN find) \cup visited |->
            IF n \in visited THEN CHOOSE comp \in comps : n \in comp.nodes
            ELSE find[n]]

\* DeviceSimulator._build_node_components
build_node_components(s) ==
    LET comps == BuildComponents(s.connections, SetToSeq(s.nodes), {}, {},
                                 LiveComponents(s))
    IN  [s EXCEPT !.node_components = @ \cup comps,
                  !.dirty_node_components = @ \cup comps,
                  !.find_node_component = FindAfter(@, comps)]

\* DeviceSimulator.build_topology
build_topology(s) ==
    build_node_components(
        [s EXCEPT !.node_components = {},
                  !.dirty_node_components = {},
                  !.find_node_component = NoComponent,
                  !.dirty_transistors = {},
                  !.dirty = TRUE])

\* The body of the loop of _resolve_node_components for the groups given.
RECURSIVE ResolveGroups(_, _)
ResolveGroups(s, groups) ==
    IF groups = <<>> THEN s
    ELSE LET group == Head(groups)
             drivers == {s.default_value[n] : n \in group.nodes}
             resolved == resolve_all(SetToSeq(drivers))
             changed == {n \in group.nodes :
                            n \in s.gates /\ resolved # s.resolved_value[n]}
         IN  ResolveGroups(
                 [s EXCEPT !.resolved_value =
                               [n \in DOMAIN s.resolved_value |->
                                   IF n \in group.nodes THEN resolved
                                   ELSE s.resolved_value[n]],
                           !.dirty_transistors =
                               @ \cup {s.find_transistor[n] : n \in changed}],
                 Tail(groups))

\* A slip: the dirty components are not cleared after they are resolved.
resolve_node_components_KeepDirty(s) ==
    ResolveGroups(s, SetToSeq(s.dirty_node_components))

\* DeviceSimulator._resolve_node_components
resolve_node_components(s) ==
    [ResolveGroups(s, SetToSeq(s.dirty_node_components))
        EXCEPT !.dirty_node_components = {}]

\* The body of the loop of _update_transistor_connections.
RECURSIVE UpdateTransistors(_, _)
UpdateTransistors(s, ts) ==
    IF ts = <<>> THEN s
    ELSE LET t == Head(ts)
             a == t.source
             b == t.drain
         IN  UpdateTransistors(
                 [s EXCEPT !.connections =
                               IF is_conducting(t, s.resolved_value)
                               THEN Node_connect(@, a, b)
                               ELSE Node_disconnect(@, a, b),
                           !.dirty_node_components =
                               @ \cup {s.find_node_component[a],
                                       s.find_node_component[b]}],
                 Tail(ts))

\* A slip: one dirty transistor is handled per pass, the others stay dirty.
update_transistor_connections_OneAtATime(s, order) ==
    IF order = <<>> THEN s
    ELSE [UpdateTransistors(s, <<Head(order)>>)
             EXCEPT !.dirty_transistors = @ \ {Head(order)}]

\* DeviceSimulator._update_transistor_connections.  _dirty_transistors is a
\* set of objects hashed by identity, which the loop may visit in any
\* order: order is one of Orders(s.dirty_transistors).
update_transistor_connections(s, order) ==
    [UpdateTransistors(s, order) EXCEPT !.dirty_transistors = {}]

\* The nodes of the groups, in the order the two nested loops visit them.
RECURSIVE GroupStarts(_)
GroupStarts(groups) ==
    IF groups = <<>> THEN <<>>
    ELSE SetToSeq(Head(groups).nodes) \o GroupStarts(Tail(groups))

\* DeviceSimulator._update_node_components
update_node_components(s) ==
    LET groups_to_remove == s.dirty_node_components
        groups_to_update ==
            BuildComponents(s.connections,
                            GroupStarts(SetToSeq(s.dirty_node_components)),
                            {}, {}, LiveComponents(s))
    IN  [s EXCEPT !.find_node_component = FindAfter(@, groups_to_update),
                  !.node_components = (@ \ groups_to_remove) \cup groups_to_update,
                  !.dirty_node_components = groups_to_update,
                  !.dirty = IF groups_to_update = {} THEN FALSE ELSE @]

\* The orders in which a pass of tick from state s may visit the
\* transistors that its resolve makes dirty.
PassOrders(s) == Orders(resolve_node_components(s).dirty_transistors)

\* One pass of the body of the loop of DeviceSimulator.tick, the dirty
\* transistors being visited in the given order, one of PassOrders(s).
tick_iteration(s, order) ==
    update_node_components(
        update_transistor_connections(resolve_node_components(s), order))

\* The states in which tick can end from state s, over every visiting
\* order, the loop making at most fuel passes.
RECURSIVE RunTick(_, _)
RunTick(s, fuel) ==
    IF ~s.dirty \/ fuel = 0 THEN {s}
    ELSE UNION {RunTick(tick_iteration(s, order), fuel - 1) : order \in PassOrders(s)}

\* A slip: the value is written to the node's resolved value.
set_value_Resolved(s, n, value) == [s EXCEPT !.resolved_value[n] = value]

\* Input.set_value on the Input whose terminal is node n.
set_value(s, n, value) == [s EXCEPT !.default_value[n] = value]

\* Probe.sample on the Probe whose terminal is node n.
sample(s, n) == s.resolved_value[n]

(***************************************************************************)
(* The reference simulator (simulator/device_sim.py) and its factories     *)
(* (simulator/device_dep.py).  A reference simulator is a record r:        *)
(*   next_node_id, next_device_id, next_transistor_id  IdentificationFactory*)
(*   nodes, devices, transistors, wires                DeviceSimulatorState*)
(*   wires_cache, static_neighbors,                                        *)
(*   dynamic_neighbors, components, component_id       attributes that     *)
(*       device_sim.py reads and writes on the state                       *)
(*   built                                             whether             *)
(*       build_topology has been called: no attribute of the source, kept  *)
(*       by the actions for the properties that speak of it                *)
(*   default_value, resolved_value                     of the Node objects,*)
(*       by node id                                                        *)
(* Lists are sequences; ids and list positions count from 0 as in the      *)
(* source, so position i of a list is element i + 1 of its sequence.       *)
(***************************************************************************)
\* An empty dict.
EmptyDict == [e \in {} |-> 0]

\* DeviceSimulatorState(): the four lists.
DeviceSimulatorState ==
    [nodes |-> <<>>, devices |-> <<>>, transistors |-> <<>>, wires |-> <<>>]

\* The attributes device_sim.py uses on the state next to the four lists:
\* the wire index, empty like the wire list, and the static and dynamic
\* adjacency, which build_topology sets; the components and the component
\* of each node, which tick sets; built is FALSE until build_topology has
\* been called.
StateExtension ==
    [wires_cache |-> EmptyDict, built |-> FALSE,
     static_neighbors |-> <<>>, dynamic_neighbors |-> <<>>,
     components |-> <<>>, component_id |-> <<>>]

\* DeviceSimulator(): fresh factories and an empty state.
NewReferenceSimulator ==
    [next_node_id |-> 0, next_device_id |-> 0, next_transistor_id |-> 0,
     nodes |-> DeviceSimulatorState.nodes,
     devices |-> DeviceSimulatorState.devices,
     transistors |-> DeviceSimulatorState.transistors,
     wires |-> DeviceSimulatorState.wires,
     wires_cache |-> StateExtension.wires_cache,
     built |-> StateExtension.built,
     static_neighbors |-> StateExtension.static_neighbors,
     dynamic_neighbors |-> StateExtension.dynamic_neighbors,
     components |-> StateExtension.components,
     component_id |-> StateExtension.component_id,
     default_value |-> EmptyDict,
     resolved_value |-> EmptyDict]

\* A slip: the counter is read and not advanced.
allocate_node_id_NoIncrement(r) == [state |-> r, id |-> r.next_node_id]

\* IdentificationFactory.allocate_*_id: the id returned and the state after.
allocate_node_id(r) ==
    [state |-> [r EXCEPT !.next_node_id = @ + 1], id |-> r.next_node_id]

\* A slip: device ids taken from the node counter.
allocate_device_id_FromNodes(r) ==
    [state |-> [r EXCEPT !.next_node_id = @ + 1], id |-> r.next_node_id]

allocate_device_id(r) ==
    [state |-> [r EXCEPT !.next_device_id = @ + 1], id |-> r.next_device_id]

allocate_transistor_id(r) ==
    [state |-> [r EXCEPT !.next_transistor_id = @ + 1], id |-> r.next_transistor_id]

\* NodeFactory.create_base_node / create_gate_node: a new Node, whose
\* default and resolved values are Z.
create_node(r, kind) ==
    LET a == allocate_node_id(r)
    IN  [state |-> [a.state EXCEPT
                       !.default_value = (a.id :> Z) @@ @,
                       !.resolved_value = (a.id :> Z) @@ @],
         node |-> Node(a.id, kind)]

create_base_node(r) == create_node(r, "BASE")

create_gate_node(r) == create_node(r, "GATE")

\* A slip: every device constructor leaves the terminal's default at Z.
LogicDevice_init_NoDrive(r, device_id, kind, node) ==
    [state |-> r, device |-> [id |-> device_id, kind |-> kind, terminal |-> node]]

\* VDD(device_id, node), GND(...), Input(...), Probe(...), Port(...): the
\* device, and the default value the constructor sets on its node.
LogicDevice_init(r, device_id, kind, node) ==
    [state |-> IF kind \in {"VDD", "GND"}
               THEN [r EXCEPT !.default_value[node.id] = DeviceDefault(kind)]
               ELSE r,
     device |-> [id |-> device_id, kind |-> kind, terminal |-> node]]

\* A slip: a device gets the node created last, when there is one.
create_device_SharedNode(r, kind) ==
    LET a == allocate_device_id(r)
        n == IF r.nodes = <<>> THEN create_base_node(a.state)
             ELSE [state |-> a.state, node |-> r.nodes[Len(r.nodes)]]
        d == LogicDevice_init(n.state, a.id, kind, n.node)
    IN  [d.state EXCEPT !.devices = Append(@, d.device),
                        !.nodes = Append(@, d.device.terminal)]

\* LogicDeviceFactory.create_<kind> followed by _register_device.
create_device(r, kind) ==
    LET a == allocate_device_id(r)
        n == create_base_node(a.state)
        d == LogicDevice_init(n.state, a.id, kind, n.node)
    IN  [d.state EXCEPT !.devices = Append(@, d.device),
                        !.nodes = Append(@, d.device.terminal)]

\* A slip: the channel nodes are registered before the gate.
create_transistor_ChannelFirst(r, kind) ==
    LET a == allocate_transistor_id(r)
        g == create_gate_node(a.state)
        src == create_base_node(g.state)
        drn == create_base_node(src.state)
        t == Transistor_init(a.id, kind, g.node, src.node, drn.node)
    IN  IF t.outcome # "return" THEN drn.state
        ELSE [drn.state EXCEPT
                 !.transistors = Append(@, t.transistor),
                 !.nodes = @ \o <<t.transistor.source, t.transistor.drain,
                                   t.transistor.gate>>]

\* TransistorFactory.create_nmos / create_pmos followed by
\* _register_transistor.
create_transistor(r, kind) ==
    LET a == allocate_transistor_id(r)
        g == create_gate_node(a.state)
        src == create_base_node(g.state)
        drn == create_base_node(src.state)
        t == Transistor_init(a.id, kind, g.node, src.node, drn.node)
    IN  IF t.outcome # "return" THEN drn.state
        ELSE [drn.state EXCEPT
                 !.transistors = Append(@, t.transistor),
                 !.nodes = @ \o <<t.transistor.gate, t.transistor.source,
                                   t.transistor.drain>>]

\* (a, b) with a <= b.
Edge(a, b) == IF a > b THEN <<b, a>> ELSE <<a, b>>

\* Two slips in connect: the pair is recorded as given; the index is not
\* consulted.
ref_connect_AsGiven(r, node_a, node_b) ==
    LET edge == <<node_a.id, node_b.id>>
    IN  IF node_a.id = node_b.id \/ edge \in DOMAIN r.wires_cache THEN r
        ELSE [r EXCEPT !.wires = Append(@, edge),
                       !.wires_cache = (edge :> Len(r.wires)) @@ @]
ref_connect_NoLookup(r, node_a, node_b) ==
    LET edge == Edge(node_a.id, node_b.id)
    IN  IF node_a.id = node_b.id THEN r
        ELSE [r EXCEPT !.wires = Append(@, edge),
                       !.wires_cache = (edge :> Len(r.wires)) @@ @]

\* DeviceSimulator.connect of device_sim.py
ref_connect(r, node_a, node_b) ==
    LET edge == Edge(node_a.id, node_b.id)
    IN  IF node_a.id = node_b.id THEN r
        ELSE IF edge \in DOMAIN r.wires_cache THEN r
        ELSE [r EXCEPT !.wires = Append(@, edge),
                       !.wires_cache = (edge :> Len(r.wires)) @@ @]

\* A dict without key e.
DictPop(dict, e) == [k \in (DOMAIN dict) \ {e} |-> dict[k]]

\* Two slips in disconnect: the moved wire keeps its old index; the wire is
\* looked up as given.
ref_disconnect_StaleIndex(r, node_a, node_b) ==
    LET edge == Edge(node_a.id, node_b.id)
    IN  IF node_a.id = node_b.id \/ edge \notin DOMAIN r.wires_cache THEN r
        ELSE LET index == r.wires_cache[edge]
                 last_edge == r.wires[Len(r.wires)]
                 wires == SubSeq(r.wires, 1, Len(r.wires) - 1)
             IN  [r EXCEPT !.wires = IF index < Len(wires)
                                     THEN [wires EXCEPT ![index + 1] = last_edge]
                                     ELSE wires,
                           !.wires_cache = DictPop(r.wires_cache, edge)]
ref_disconnect_AsGiven(r, node_a, node_b) ==
    LET edge == <<node_a.id, node_b.id>>
    IN  IF node_a.id = node_b.id \/ edge \notin DOMAIN r.wires_cache THEN r
        ELSE LET index == r.wires_cache[edge]
                 cache == DictPop(r.wires_cache, edge)
                 last_edge == r.wires[Len(r.wires)]
                 wires == SubSeq(r.wires, 1, Len(r.wires) - 1)
             IN  IF index < Len(wires)
                 THEN [r EXCEPT !.wires = [wires EXCEPT ![index + 1] = last_edge],
                                !.wires_cache = (last_edge :> index) @@ cache]
                 ELSE [r EXCEPT !.wires = wires, !.wires_cache = cache]

\* DeviceSimulator.disconnect of device_sim.py: swap-pop.
ref_disconnect(r, node_a, node_b) ==
    LET edge == Edge(node_a.id, node_b.id)
    IN  IF node_a.id = node_b.id THEN r
        ELSE IF edge \notin DOMAIN r.wires_cache THEN r
        ELSE LET index == r.wires_cache[edge]
                 cache == DictPop(r.wires_cache, edge)
                 last_edge == r.wires[Len(r.wires)]
                 wires == SubSeq(r.wires, 1, Len(r.wires) - 1)
             IN  IF index < Len(wires)
                 THEN [r EXCEPT !.wires = [wires EXCEPT ![index + 1] = last_edge],
                                !.wires_cache = (last_edge :> index) @@ cache]
                 ELSE [r EXCEPT !.wires = wires, !.wires_cache = cache]

\* The neighbours that the loop over the wires appends to the list of node
\* n, in the order of the wire list.
RECURSIVE Neighbors(_, _)
Neighbors(wires, n) ==
    IF wires = <<>> THEN <<>>
    ELSE LET w == wires[Len(wires)]
         IN  Neighbors(SubSeq(wires, 1, Len(wires) - 1), n)
                 \o (IF w[1] = n THEN <<w[2]>> ELSE <<>>)
                 \o (IF w[2] = n THEN <<w[1]>> ELSE <<>>)

\* list[index] of Python for an index that is not negative: the list has
\* the entry.
InRange(list, index) == index + 1 <= Len(list)

\* DeviceSimulator._reference_build_static_topology.  The loop over the
\* wires indexes the new lists, one per node, by the two ids of each wire
\* (ids are those allocate_node_id hands out, never negative); a wire to a
\* node whose id is len(nodes) or more, a node of another simulator, raises
\* IndexError there.  The new lists are local until the two assignments
\* that end the method, so a call that raises leaves the state as it was.
ref_build_static_topology(r) ==
    IF \A i \in 1..Len(r.wires) :
           InRange(r.nodes, r.wires[i][1]) /\ InRange(r.nodes, r.wires[i][2])
    THEN [outcome |-> "return",
          state |-> [r EXCEPT !.static_neighbors =
                                  [i \in 1..Len(r.nodes) |-> Neighbors(r.wires, i - 1)],
                              !.dynamic_neighbors =
                                  [i \in 1..Len(r.nodes) |-> <<>>]]]
    ELSE [outcome |-> "IndexError", state |-> r]

\* DeviceSimulator.build_topology of device_sim.py
ref_build_topology(r) == ref_build_static_topology(r)

\* Node.set_resolved_value(value) on the node with id n.
ref_set_resolved_value(r, n, value) == [r EXCEPT !.resolved_value[n] = value]

\* Input.set_value(value) on the Input whose terminal has id n.
ref_set_value(r, n, value) == [r EXCEPT !.default_value[n] = value]

\* transistor.is_conducting() for a transistor of simulator r.
ref_is_conducting(r, t) ==
    is_conducting([kind |-> t.kind, gate |-> t.gate.id], r.resolved_value)

\* The "for transistor in transistors" loop of the dynamic build on the
\* lists dn: each conducting transistor appends the drain to the list of
\* the source, then the source to the list of the drain.  A list that is
\* missing raises IndexError and leaves what was appended before.
RECURSIVE AppendChannels(_, _, _)
AppendChannels(r, dn, transistors) ==
    IF transistors = <<>> THEN [outcome |-> "return", dynamic_neighbors |-> dn]
    ELSE LET t == Head(transistors)
             source_id == t.source.id
             drain_id == t.drain.id
         IN  IF ~ref_is_conducting(r, t) THEN AppendChannels(r, dn, Tail(transistors))
             ELSE IF ~InRange(dn, source_id)
                  THEN [outcome |-> "IndexError", dynamic_neighbors |-> dn]
             ELSE LET d1 == [dn EXCEPT ![source_id + 1] = Append(@, drain_id)]
                  IN  IF ~InRange(d1, drain_id)
                      THEN [outcome |-> "IndexError", dynamic_neighbors |-> d1]
                      ELSE AppendChannels(
                               r, [d1 EXCEPT ![drain_id + 1] = Append(@, source_id)],
                               Tail(transistors))

\* A slip in the dynamic build: the lists of the last rebuild are not
\* cleared.
ref_build_dynamic_topology_NoClear(r) ==
    LET a == AppendChannels(r, r.dynamic_neighbors, r.transistors)
    IN  [outcome |-> a.outcome,
         state |-> [r EXCEPT !.dynamic_neighbors = a.dynamic_neighbors]]

\* DeviceSimulator._reference_build_dynamic_topology: the outcome of the
\* call and the state it leaves.
ref_build_dynamic_topology(r) ==
    LET a == AppendChannels(r, [i \in 1..Len(r.dynamic_neighbors) |-> <<>>],
                            r.transistors)
    IN  [outcome |-> a.outcome,
         state |-> [r EXCEPT !.dynamic_neighbors = a.dynamic_neighbors]]

\* "for neighbor in ...: if not visited[neighbor]: visited[neighbor] = True;
\* stack.append(neighbor)" over one list of neighbours.
RECURSIVE PushUnvisited(_, _, _)
PushUnvisited(neighbors, stack, visited) ==
    IF neighbors = <<>> THEN [stack |-> stack, visited |-> visited]
    ELSE IF Head(neighbors) \in visited
         THEN PushUnvisited(Tail(neighbors), stack, visited)
         ELSE PushUnvisited(Tail(neighbors), Append(stack, Head(neighbors)),
                            visited \cup {Head(neighbors)})

\* The "while stack" loop of _reference_build_components for component cid:
\* the component in visiting order, the nodes visited and component_id.
\* static_neighbors[node] and dynamic_neighbors[node] raise IndexError for
\* a node made after the last build_topology.
RECURSIVE RefDfs(_, _, _, _, _, _)
RefDfs(r, stack, visited, component, component_id, cid) ==
    IF stack = <<>>
    THEN [outcome |-> "return", component |-> component, visited |-> visited,
          component_id |-> component_id]
    ELSE LET node == stack[Len(stack)]
         IN  IF ~InRange(r.static_neighbors, node) \/ ~InRange(r.dynamic_neighbors, node)
             THEN [outcome |-> "IndexError", component |-> component,
                   visited |-> visited, component_id |-> component_id]
             ELSE LET s1 == PushUnvisited(r.static_neighbors[node + 1],
                                          SubSeq(stack, 1, Len(stack) - 1), visited)
                      s2 == PushUnvisited(r.dynamic_neighbors[node + 1],
                                          s1.stack, s1.visited)
                  IN  RefDfs(r, s2.stack, s2.visited, Append(component, node),
                             [component_id EXCEPT ![node + 1] = cid], cid)

\* The "for start in range(node_count)" loop, from start on; cid is
\* len(components).
RECURSIVE RefComponents(_, _, _, _, _)
RefComponents(r, start, visited, components, component_id) ==
    IF start >= Len(r.nodes)
    THEN [outcome |-> "return", components |-> components,
          component_id |-> component_id]
    ELSE IF start \in visited
         THEN RefComponents(r, start + 1, visited, components, component_id)
         ELSE LET d == RefDfs(r, <<start>>, visited \cup {start}, <<>>,
                              component_id, Len(components))
              IN  IF d.outcome # "return"
                  THEN [outcome |-> d.outcome, components |-> components,
                        component_id |-> component_id]
                  ELSE RefComponents(r, start + 1, d.visited,
                                     Append(components, d.component), d.component_id)

\* The end of _reference_build_components: the lists are stored when the
\* loops have run to their end, and an IndexError leaves the state as it
\* was.
StoreComponents(r, result) ==
    [outcome |-> result.outcome,
     state |-> IF result.outcome # "return" THEN r
               ELSE [r EXCEPT !.components = result.components,
                              !.component_id = result.component_id]]

\* A slip in the component builder: the dynamic neighbours are not followed.
ref_build_components_StaticOnly(r) ==
    LET result == RefComponents([r EXCEPT !.dynamic_neighbors =
                                   [i \in 1..Len(r.dynamic_neighbors) |-> <<>>]],
                               0, {}, <<>>, [i \in 1..Len(r.nodes) |-> -1])
    IN  StoreComponents(r, result)

\* DeviceSimulator._reference_build_components: the outcome of the call and
\* the state it leaves.
ref_build_components(r) ==
    StoreComponents(r, RefComponents(r, 0, {}, <<>>, [i \in 1..Len(r.nodes) |-> -1]))

\* DeviceSimulator._reference_tick and tick of device_sim.py: the component
\* build is not reached when the dynamic build raises.
ref_tick(r) ==
    LET d == ref_build_dynamic_topology(r)
    IN  IF d.outcome # "return" THEN d ELSE ref_build_components(d.state)

(***************************************************************************)
(* Registration on the incremental simulator (simulator/device.py).        *)
(***************************************************************************)
\* DeviceSimulator.register_device
register_device(s, device) ==
    [s EXCEPT !.devices = @ \cup {device},
              !.nodes = @ \cup {device.terminal}]

\* DeviceSimulator.unregister_device
unregister_device(s, device) ==
    [s EXCEPT !.devices = @ \ {device},
              !.nodes = @ \ {device.terminal}]

\* A slip: the gate stays in the gate set.
unregister_transistor_KeepGate(s, transistor) ==
    [s EXCEPT !.transistors = @ \ {transistor},
              !.nodes = @ \ {transistor.gate, transistor.source, transistor.drain},
              !.find_transistor = DictPop(@, transistor.gate)]

\* DeviceSimulator.register_transistor
register_transistor(s, transistor) ==
    [s EXCEPT !.transistors = @ \cup {transistor},
              !.nodes = @ \cup {transistor.gate, transistor.source, transistor.drain},
              !.gates = @ \cup {transistor.gate},
              !.find_transistor = (transistor.gate :> transistor) @@ @]

\* DeviceSimulator.unregister_transistor
unregister_transistor(s, transistor) ==
    [s EXCEPT !.transistors = @ \ {transistor},
              !.nodes = @ \ {transistor.gate, transistor.source, transistor.drain},
              !.gates = @ \ {transistor.gate},
              !.find_transistor = DictPop(@, transistor.gate)]

(***************************************************************************)
(* State.  The first thirteen variables are the fields of the simulator    *)
(* and of its nodes.  The others record the run: the circuit that was      *)
(* built (with its declared wires), where the caller is (pc), the          *)
(* iterations the running tick has made (counted up to IterCap), the       *)
(* resolved values before each of its last two iterations, whether         *)
(* build_topology has ever been called, the last call that returned, and   *)
(* the ticks that returned since the last build_topology (0, 1, or 2 for   *)
(* more).  call is the last call made on the core classes directly         *)
(* (LogicValue.resolve, LogicValue.resolve_all, is_conducting, the NMOS    *)
(* and PMOS constructors, Input.set_value), with its arguments and what it *)
(* gave.  ref is a reference simulator (device_sim.py) with the last call  *)
(* made on it.                                                             *)
(***************************************************************************)
VARIABLES devices, transistors, nodes, gates, find_transistor,
          default_value, resolved_value, connections,
          node_components, dirty_node_components, find_node_component,
          dirty_transistors, dirty,
          circuit, pc, iters, history, built, last, ticks_since_build,
          call, ref

simVars == <<devices, transistors, nodes, gates, find_transistor,
             default_value, resolved_value, connections,
             node_components, dirty_node_components, find_node_component,
             dirty_transistors, dirty>>

runVars == <<circuit, pc, iters, history, built, last, ticks_since_build>>

vars == <<simVars, runVars, call, ref>>

NoCall == [op |-> "none", args |-> <<>>, outcome |-> "none", value |-> Z]

\* ref holds a reference simulator (sim), the last call made on it (op,
\* args) and the simulator as it was before that call (before).  After a
\* connect followed at once by a disconnect of the same two nodes, op is
\* "connect;disconnect" and before is the simulator before the connect.
\* After two build_topology calls in a row op is
\* "build_topology;build_topology".  outcome is "return", or the exception
\* that the call raised: RefState gives "return", and the actions of the
\* calls that can raise set it.
RefState(sim, op, args, before) ==
    [sim |-> sim, op |-> op, args |-> args, before |-> before,
     outcome |-> "return"]

NoRef == RefState(NewReferenceSimulator, "none", <<>>, NewReferenceSimulator)

Sim ==
    [ devices |-> devices, transistors |-> transistors, nodes |-> nodes,
      gates |-> gates, find_transistor |-> find_transistor,
      default_value |-> default_value, resolved_value |-> resolved_value,
      connections |-> connections, node_components |-> node_components,
      dirty_node_components |-> dirty_node_components,
      find_node_component |-> find_node_component,
      dirty_transistors |-> dirty_transistors, dirty |-> dirty ]

SetSim(s) ==
    /\ devices' = s.devices
    /\ transistors' = s.transistors
    /\ nodes' = s.nodes
    /\ gates' = s.gates
    /\ find_transistor' = s.find_transistor
    /\ default_value' = s.default_value
    /\ resolved_value' = s.resolved_value
    /\ connections' = s.connections
    /\ node_components' = s.node_components
    /\ dirty_node_components' = s.dirty_node_components
    /\ find_node_component' = s.find_node_component
    /\ dirty_transistors' = s.dirty_transistors
    /\ dirty' = s.dirty

\* A simulator on which circuit c has been built and nothing called yet.
InitCircuit(c) ==
        /\ circuit = c
        /\ devices = InitialSim(c).devices
        /\ transistors = InitialSim(c).transistors
        /\ nodes = InitialSim(c).nodes
        /\ gates = InitialSim(c).gates
        /\ find_transistor = InitialSim(c).find_transistor
        /\ default_value = InitialSim(c).default_value
        /\ resolved_value = InitialSim(c).resolved_value
        /\ connections = InitialSim(c).connections
        /\ node_components = InitialSim(c).node_components
        /\ dirty_node_components = InitialSim(c).dirty_node_components
        /\ find_node_component = InitialSim(c).find_node_component
        /\ dirty_transistors = InitialSim(c).dirty_transistors
        /\ dirty = InitialSim(c).dirty
        /\ pc = "idle"
        /\ iters = 0
        /\ history = <<>>
        /\ built = FALSE
        /\ last = "init"
        /\ ticks_since_build = 0

Init ==
    /\ \E c \in Catalogue : InitCircuit(c)
    /\ call = NoCall
    /\ ref = NoRef

\* Input.set_value(value) on one of the Inputs; call records the Input's
\* terminal and the value.
SetValue ==
    /\ pc = "idle"
    /\ \E d \in devices, value \in LogicValue :
          /\ d.kind = "INPUT"
          /\ SetSim(set_value(Sim, d.terminal, value))
          /\ call' = [op |-> "set_value", args |-> <<d.terminal, value>>,
                      outcome |-> "return", value |-> Z]
    /\ last' = "set_value"
    /\ UNCHANGED <<circuit, pc, iters, history, built, ticks_since_build, ref>>

\* DeviceSimulator.build_topology()
BuildTopology ==
    /\ pc = "idle"
    /\ SetSim(build_topology(Sim))
    /\ built' = TRUE
    /\ last' = "build_topology"
    /\ ticks_since_build' = 0
    /\ UNCHANGED <<circuit, pc, iters, history, call, ref>>

\* DeviceSimulator.tick() is entered.
TickCall ==
    /\ pc = "idle"
    /\ pc' = "tick"
    /\ iters' = 0
    /\ history' = <<>>
    /\ UNCHANGED <<simVars, circuit, built, last, ticks_since_build, call, ref>>

\* "while self._dirty" holds: one pass of the loop body.
TickIteration ==
    /\ pc = "tick"
    /\ dirty
    /\ \E order \in PassOrders(Sim) : SetSim(tick_iteration(Sim, order))
    /\ iters' = IF iters < IterCap THEN iters + 1 ELSE iters
    /\ history' = IF history = <<>> THEN <<resolved_value>>
                  ELSE <<history[Len(history)], resolved_value>>
    /\ UNCHANGED <<circuit, pc, built, last, ticks_since_build, call, ref>>

\* "while self._dirty" fails: tick returns.
TickReturn ==
    /\ pc = "tick"
    /\ ~dirty
    /\ pc' = "idle"
    /\ last' = "tick"
    /\ ticks_since_build' = IF ticks_since_build < 2 THEN ticks_since_build + 1
                            ELSE ticks_since_build
    /\ UNCHANGED <<simVars, circuit, iters, history, built, call, ref>>

Next ==
    \/ SetValue
    \/ BuildTopology
    \/ TickCall
    \/ TickIteration
    \/ TickReturn

Spec == Init /\ [][Next]_vars

(***************************************************************************)
(* Calls on the core classes.  They touch no simulator: the second         *)
(* specification starts with one of them made, next to an idle simulator,  *)
(* and runs it.                                                            *)
(***************************************************************************)
\* The sequences of at most MaxLen LogicValues.
ValueSeqs == UNION {[1 .. n -> LogicValue] : n \in 0 .. MaxLen}

\* The nodes a caller can hand to a transistor constructor.
NodePool == {Node(i, k) : i \in 0 .. MaxNodeId, k \in NodeKind}

\* A call that has been made and has not returned yet.
Pending(op, args) == [op |-> op, args |-> args, outcome |-> "pending", value |-> Z]

\* The calls the second specification makes, with their arguments.
CoreCalls ==
    {Pending("resolve", <<a, b>>) : a, b \in LogicValue}
    \cup {Pending("resolve_nested", <<a, b, c>>) : a, b, c \in LogicValue}
    \cup {Pending("resolve_all", values) : values \in ValueSeqs}
    \cup {Pending("resolve_all_byte", <<mask>>) : mask \in 0 .. MaxByte}
    \cup {Pending("is_conducting", <<kind, g>>) : kind \in {"NMOS", "PMOS"}, g \in LogicValue}
    \cup {Pending("new_transistor", <<kind, gate, source, drain, transistor_id>>) :
             kind \in {"NMOS", "PMOS"}, gate \in NodePool, source \in NodePool,
             drain \in NodePool, transistor_id \in 0 .. MaxNodeId}

\* a.resolve(b)
Resolve ==
    /\ call.op = "resolve" /\ call.outcome = "pending"
    /\ call' = [call EXCEPT !.outcome = "return",
                            !.value = resolve(call.args[1], call.args[2])]
    /\ UNCHANGED <<simVars, runVars, ref>>

\* a.resolve(b).resolve(c) and a.resolve(b.resolve(c))
ResolveNested ==
    /\ call.op = "resolve_nested" /\ call.outcome = "pending"
    /\ LET a == call.args[1]
           b == call.args[2]
           c == call.args[3]
       IN  call' = [call EXCEPT !.outcome = "return",
                                !.value = <<resolve(resolve(a, b), c),
                                            resolve(a, resolve(b, c))>>]
    /\ UNCHANGED <<simVars, runVars, ref>>

\* LogicValue.resolve_all(values)
ResolveAll ==
    /\ call.op = "resolve_all" /\ call.outcome = "pending"
    /\ call' = [call EXCEPT !.outcome = resolve_all_call(call.args).outcome,
                            !.value = resolve_all_call(call.args).value]
    /\ UNCHANGED <<simVars, runVars, ref>>

\* LogicValue.resolve_all_byte(mask)
ResolveAllByte ==
    /\ call.op = "resolve_all_byte" /\ call.outcome = "pending"
    /\ call' = [call EXCEPT !.outcome = resolve_all_byte_call(call.args[1]).outcome,
                            !.value = resolve_all_byte_call(call.args[1]).value]
    /\ UNCHANGED <<simVars, runVars, ref>>

\* t.is_conducting() for an NMOS or PMOS t whose gate holds resolved value g.
IsConducting ==
    /\ call.op = "is_conducting" /\ call.outcome = "pending"
    /\ LET kind == call.args[1]
           g == call.args[2]
       IN  call' = [call EXCEPT !.outcome = "return",
                                !.value = is_conducting(Transistor(kind, 0),
                                                        [n \in {0} |-> g])]
    /\ UNCHANGED <<simVars, runVars, ref>>

\* NMOS(transistor_id, gate, source, drain) or PMOS(...)
NewTransistor ==
    /\ call.op = "new_transistor" /\ call.outcome = "pending"
    /\ LET r == Transistor_init(call.args[5], call.args[1], call.args[2],
                                call.args[3], call.args[4])
       IN  call' = [call EXCEPT !.outcome = r.outcome, !.value = r.transistor]
    /\ UNCHANGED <<simVars, runVars, ref>>

CoreInit ==
    /\ InitCircuit(Direct)
    /\ call \in CoreCalls
    /\ ref = NoRef

CoreNext ==
    \/ Resolve
    \/ ResolveNested
    \/ ResolveAll
    \/ ResolveAllByte
    \/ IsConducting
    \/ NewTransistor

CoreSpec == CoreInit /\ [][CoreNext]_vars

(***************************************************************************)
(* Wiring calls on a reference simulator: the third specification starts   *)
(* from a simulator on which MaxPorts Ports were created and makes connect *)
(* and disconnect calls on their terminals, in any order and with any two  *)
(* terminals, the same one twice included.                                 *)
(***************************************************************************)
MaxPorts == 3

RECURSIVE WithPorts(_)
WithPorts(n) ==
    IF n = 0 THEN NewReferenceSimulator
    ELSE create_device(WithPorts(n - 1), "PORT")

\* The nodes registered on simulator r.
RefNodes(r) == {r.nodes[i] : i \in 1..Len(r.nodes)}

SamePair(args1, args2) ==
    {args1[1], args1[2]} = {args2[1], args2[2]}

\* DeviceSimulator.connect(node_a, node_b)
Connect ==
    /\ \E node_a \in RefNodes(ref.sim), node_b \in RefNodes(ref.sim) :
          ref' = RefState(ref_connect(ref.sim, node_a, node_b), "connect",
                          <<node_a.id, node_b.id>>, ref.sim)
    /\ UNCHANGED <<simVars, runVars, call>>

\* DeviceSimulator.disconnect(node_a, node_b)
Disconnect ==
    /\ \E node_a \in RefNodes(ref.sim), node_b \in RefNodes(ref.sim) :
          LET args == <<node_a.id, node_b.id>>
              after == ref_disconnect(ref.sim, node_a, node_b)
          IN  ref' = IF ref.op = "connect" /\ SamePair(ref.args, args)
                     THEN RefState(after, "connect;disconnect", args, ref.before)
                     ELSE RefState(after, "disconnect", args, ref.sim)
    /\ UNCHANGED <<simVars, runVars, call>>

WireInit ==
    /\ InitCircuit(Direct)
    /\ call = NoCall
    /\ ref = RefState(WithPorts(MaxPorts), "none", <<>>, WithPorts(MaxPorts))

WireNext ==
    \/ Connect
    \/ Disconnect

WireSpec == WireInit /\ [][WireNext]_vars

(***************************************************************************)
(* Wiring and building: the fourth specification starts from a simulator   *)
(* with a VDD, a GND and a Probe and makes connect, disconnect and         *)
(* build_topology calls in any order.  connect and disconnect take any     *)
(* Node: next to the nodes of the simulator, the calls are made with the   *)
(* terminal of a device of another simulator, whose id no node of this one *)
(* has.                                                                    *)
(***************************************************************************)
ThreeDevices ==
    create_device(create_device(create_device(NewReferenceSimulator, "VDD"),
                                "GND"), "PROBE")

\* Another DeviceSimulator(), with one device more, and the node of its
\* last device.
OtherSimulator == create_device(ThreeDevices, "PORT")

ForeignNode == OtherSimulator.nodes[Len(OtherSimulator.nodes)]

\* The node of this simulator that was created last.
LastNode(r) == r.nodes[Len(r.nodes)]

\* DeviceSimulator.connect(node_a, node_b) with the node created last and
\* the node of the other simulator.
ConnectForeign ==
    /\ ref' = RefState(ref_connect(ref.sim, LastNode(ref.sim), ForeignNode),
                       "connect", <<LastNode(ref.sim).id, ForeignNode.id>>,
                       ref.sim)
    /\ UNCHANGED <<simVars, runVars, call>>

\* DeviceSimulator.disconnect(node_a, node_b) with the same two nodes.
DisconnectForeign ==
    /\ LET args == <<LastNode(ref.sim).id, ForeignNode.id>>
           after == ref_disconnect(ref.sim, LastNode(ref.sim), ForeignNode)
       IN  ref' = IF ref.op = "connect" /\ SamePair(ref.args, args)
                  THEN RefState(after, "connect;disconnect", args, ref.before)
                  ELSE RefState(after, "disconnect", args, ref.sim)
    /\ UNCHANGED <<simVars, runVars, call>>

BuildOps == {"build_topology", "build_topology;build_topology"}

\* DeviceSimulator.build_topology() of device_sim.py
RefBuildTopology ==
    /\ LET result == ref_build_topology(ref.sim)
       IN  ref' = [RefState([result.state EXCEPT !.built = TRUE],
                            IF ref.op \in BuildOps
                            THEN "build_topology;build_topology"
                            ELSE "build_topology",
                            <<>>, ref.sim)
                      EXCEPT !.outcome = result.outcome]
    /\ UNCHANGED <<simVars, runVars, call>>

TopoInit ==
    /\ InitCircuit(Direct)
    /\ call = NoCall
    /\ ref = RefState(ThreeDevices, "none", <<>>, ThreeDevices)

TopoNext ==
    \/ Connect
    \/ Disconnect
    \/ ConnectForeign
    \/ DisconnectForeign
    \/ RefBuildTopology

TopoSpec == TopoInit /\ [][TopoNext]_vars

(***************************************************************************)
(* Creation: the fifth specification starts from a new simulator and       *)
(* creates up to MaxCreated devices and transistors of any kinds, in any   *)
(* order, with build_topology calls in between.  args holds the ids of what the call returned: the device and    *)
(* its terminal, or the transistor, its gate, source and drain.            *)
(***************************************************************************)
MaxCreated == 3

DeviceKinds == {"VDD", "GND", "INPUT", "PROBE", "PORT"}

TransistorKinds == {"NMOS", "PMOS"}

Created(r) == Len(r.devices) + Len(r.transistors)

\* DeviceSimulator.create_vdd / create_gnd / create_input / create_probe /
\* create_port
CreateDevice ==
    /\ Created(ref.sim) < MaxCreated
    /\ \E kind \in DeviceKinds :
          LET after == create_device(ref.sim, kind)
              device == after.devices[Len(after.devices)]
          IN  ref' = RefState(after, "create_device",
                              <<device.id, device.terminal.id>>, ref.sim)
    /\ UNCHANGED <<simVars, runVars, call>>

\* DeviceSimulator.create_nmos / create_pmos
CreateTransistor ==
    /\ Created(ref.sim) < MaxCreated
    /\ \E kind \in TransistorKinds :
          LET after == create_transistor(ref.sim, kind)
              t == IF after.transistors = <<>> THEN NoTransistor
                   ELSE after.transistors[Len(after.transistors)]
          IN  ref' = RefState(after, "create_transistor",
                              IF Len(after.transistors) = Len(ref.sim.transistors)
                              THEN <<>>
                              ELSE <<t.id, t.gate.id, t.source.id, t.drain.id>>,
                              ref.sim)
    /\ UNCHANGED <<simVars, runVars, call>>

FactoryInit ==
    /\ InitCircuit(Direct)
    /\ call = NoCall
    /\ ref = NoRef

FactoryNext ==
    \/ CreateDevice
    \/ CreateTransistor
    \/ RefBuildTopology

FactorySpec == FactoryInit /\ [][FactoryNext]_vars

(***************************************************************************)
(* Ticks of the reference simulator: the sixth specification starts from a *)
(* new simulator, empty or with an NMOS (nodes 0, 1, 2), a PMOS (nodes 3,  *)
(* 4, 5) and a VDD (node 6) joined by some of the wires of TickWires, and  *)
(* makes build_topology, tick and Node.set_resolved_value calls on the     *)
(* gates, in any order.  ref records how tick ended: before the first      *)
(* build_topology the neighbour lists are missing and tick raises          *)
(* IndexError.                                                             *)
(***************************************************************************)
TwoTransistors ==
    create_device(create_transistor(create_transistor(NewReferenceSimulator,
                                                      "NMOS"), "PMOS"), "VDD")

\* Wires between the two channels, between the two gates, from the VDD to
\* the NMOS source, and across the NMOS channel.
TickWires == {<<2, 4>>, <<0, 3>>, <<6, 1>>, <<1, 2>>}

\* Simulator r after connect on each of the pairs given, in some order.
RECURSIVE Connected(_, _)
Connected(r, pairs) ==
    IF pairs = <<>> THEN r
    ELSE Connected(ref_connect(r, r.nodes[Head(pairs)[1] + 1],
                               r.nodes[Head(pairs)[2] + 1]), Tail(pairs))

GateIds(r) == {r.transistors[i].gate.id : i \in 1..Len(r.transistors)}

\* Node.set_resolved_value(value) on the gate of a transistor.
SetResolvedValue ==
    /\ \E n \in GateIds(ref.sim), value \in LogicValue :
          ref' = RefState(ref_set_resolved_value(ref.sim, n, value),
                          "set_resolved_value", <<n, value>>, ref.sim)
    /\ UNCHANGED <<simVars, runVars, call>>

\* DeviceSimulator.tick() of device_sim.py
RefTick ==
    /\ ref' = [RefState(ref_tick(ref.sim).state, "tick", <<>>, ref.sim)
                  EXCEPT !.outcome = ref_tick(ref.sim).outcome]
    /\ UNCHANGED <<simVars, runVars, call>>

TickInit ==
    /\ InitCircuit(Direct)
    /\ call = NoCall
    /\ \E r \in {NewReferenceSimulator}
                 \cup {Connected(TwoTransistors, SetToSeq(W)) : W \in SUBSET TickWires} :
          ref = RefState(r, "none", <<>>, r)

TickNext ==
    \/ SetResolvedValue
    \/ RefBuildTopology
    \/ RefTick

TickSpec == TickInit /\ [][TickNext]_vars

(***************************************************************************)
(* Registration: the seventh specification starts from a new incremental   *)
(* simulator and registers and unregisters, in any order, the devices and  *)
(* transistors of a pool.  Every device has a node of its own (the old     *)
(* core/device.py makes it); the NMOS was made on nodes 3, 4, 5 and the    *)
(* PMOS on the gate and the source of the NMOS and node 6.  call holds the *)
(* last call                                                               *)
(* and, as value, the collections before it; after a register followed at *)
(* once by the unregister of the same object, op is "register;unregister"  *)
(* and value the collections before the register.                          *)
(***************************************************************************)
DevicePool == {Device("VDD", 0), Device("GND", 1), Device("PROBE", 2)}

TransistorPool ==
    {Transistor("NMOS", 3), [kind |-> "PMOS", gate |-> 3, source |-> 4, drain |-> 6]}

PoolCircuit ==
    [ name |-> "pool", size |-> 0, nodes |-> 0 .. 6, devices |-> {},
      transistors |-> {}, wires |-> {}, loop |-> {} ]

\* The collections that registration keeps.
Collections(s) ==
    [devices |-> s.devices, transistors |-> s.transistors, nodes |-> s.nodes,
     gates |-> s.gates, find_transistor |-> s.find_transistor]

\* What call becomes when op is called on object x.
RegCall(op, x) ==
    IF op = "unregister" /\ call.op = "register" /\ call.args = <<x>>
    THEN [op |-> "register;unregister", args |-> <<x>>, outcome |-> "return",
          value |-> call.value]
    ELSE [op |-> op, args |-> <<x>>, outcome |-> "return",
          value |-> Collections(Sim)]

\* DeviceSimulator.register_device(device)
RegisterDevice ==
    /\ \E device \in DevicePool :
          /\ SetSim(register_device(Sim, device))
          /\ call' = RegCall("register", device)
    /\ UNCHANGED <<runVars, ref>>

\* DeviceSimulator.unregister_device(device)
UnregisterDevice ==
    /\ \E device \in DevicePool :
          /\ SetSim(unregister_device(Sim, device))
          /\ call' = RegCall("unregister", device)
    /\ UNCHANGED <<runVars, ref>>

\* DeviceSimulator.register_transistor(transistor)
RegisterTransistor ==
    /\ \E transistor \in TransistorPool :
          /\ SetSim(register_transistor(Sim, transistor))
          /\ call' = RegCall("register", transistor)
    /\ UNCHANGED <<runVars, ref>>

\* DeviceSimulator.unregister_transistor(transistor)
UnregisterTransistor ==
    /\ \E transistor \in TransistorPool :
          /\ SetSim(unregister_transistor(Sim, transistor))
          /\ call' = RegCall("unregister", transistor)
    /\ UNCHANGED <<runVars, ref>>

\* DeviceSimulator(): nothing is registered.
RegInit ==
    /\ circuit = PoolCircuit
    /\ devices = {}
    /\ transistors = {}
    /\ nodes = {}
    /\ gates = {}
    /\ find_transistor = InitialSim(PoolCircuit).find_transistor
    /\ default_value = [n \in PoolCircuit.nodes |->
                           IF n = 0 THEN ONE ELSE IF n = 1 THEN ZERO ELSE Z]
    /\ resolved_value = InitialSim(PoolCircuit).resolved_value
    /\ connections = InitialSim(PoolCircuit).connections
    /\ node_components = {}
    /\ dirty_node_components = {}
    /\ find_node_component = NoComponent
    /\ dirty_transistors = {}
    /\ dirty = TRUE
    /\ pc = "idle"
    /\ iters = 0
    /\ history = <<>>
    /\ built = FALSE
    /\ last = "init"
    /\ ticks_since_build = 0
    /\ call = NoCall
    /\ ref = NoRef

RegNext ==
    \/ RegisterDevice
    \/ UnregisterDevice
    \/ RegisterTransistor
    \/ UnregisterTransistor

RegSpec == RegInit /\ [][RegNext]_vars

(***************************************************************************)
(* Visiting orders: the eighth specification runs the incremental          *)
(* simulator on a transmission gate, an NMOS and a PMOS made on the same   *)
(* source and drain nodes (core/transistor.py takes the caller's nodes),   *)
(* with VDD on the source, a Probe on the drain and one Input on both      *)
(* gates.  Both transistors become dirty in the same pass, and the pass    *)
(* visits them in either order.  The components and the resolved values of *)
(* a pass are sets and per-component values, which the orders of the other *)
(* loops do not change.  call holds the simulator as it was when tick was  *)
(* entered.                                                                *)
(***************************************************************************)
Parallel ==
    [ name |-> "parallel", size |-> 0, nodes |-> 0 .. 6,
      devices |-> {Device("VDD", 0), Device("INPUT", 1), Device("PROBE", 2)},
      transistors |-> {Transistor("NMOS", 3),
                       [kind |-> "PMOS", gate |-> 6, source |-> 4, drain |-> 5]},
      wires |-> {Wire(0, 4), Wire(5, 2), Wire(1, 3), Wire(1, 6)},
      loop |-> {} ]

\* DeviceSimulator.tick() is entered.
OrderTickCall ==
    /\ pc = "idle"
    /\ pc' = "tick"
    /\ iters' = 0
    /\ history' = <<>>
    /\ call' = [op |-> "tick", args |-> <<>>, outcome |-> "pending", value |-> Sim]
    /\ UNCHANGED <<simVars, circuit, built, last, ticks_since_build, ref>>

\* "while self._dirty" fails: tick returns.
OrderTickReturn ==
    /\ pc = "tick"
    /\ ~dirty
    /\ pc' = "idle"
    /\ last' = "tick"
    /\ ticks_since_build' = IF ticks_since_build < 2 THEN ticks_since_build + 1
                            ELSE ticks_since_build
    /\ call' = [call EXCEPT !.outcome = "return"]
    /\ UNCHANGED <<simVars, circuit, iters, history, built, ref>>

OrderInit ==
    /\ InitCircuit(Parallel)
    /\ call = NoCall
    /\ ref = NoRef

OrderNext ==
    \/ SetValue
    \/ BuildTopology
    \/ OrderTickCall
    \/ TickIteration
    \/ OrderTickReturn

OrderSpec == OrderInit /\ [][OrderNext]_vars

(***************************************************************************)
(* Both simulators: the ninth specification holds the same circuit in the  *)
(* incremental simulator (the simulator variables) and in the reference    *)
(* simulator (ref), and makes every call on both: set_value on an Input,   *)
(* build_topology and tick, in any order.  The circuits settle, so tick is *)
(* one step.  ref records how the reference tick ended.                    *)
(***************************************************************************)
\* The reference simulator after the create_ calls that make the devices
\* and transistors of circuit c, in the order of their node ids from n on.
RECURSIVE RefCreate(_, _, _)
RefCreate(c, r, n) ==
    IF n \notin c.nodes THEN r
    ELSE IF \E d \in c.devices : d.terminal = n
         THEN RefCreate(c, create_device(r, (CHOOSE d \in c.devices : d.terminal = n).kind),
                        n + 1)
         ELSE RefCreate(c, create_transistor(r, (CHOOSE t \in c.transistors : t.gate = n).kind),
                        n + 3)

\* The wires of c as pairs of node ids.
WirePairs(c) == {<<a, b>> \in c.nodes \X c.nodes : a < b /\ Wire(a, b) \in c.wires}

\* The reference simulator holding circuit c.
RefOf(c) == Connected(RefCreate(c, NewReferenceSimulator, 0), SetToSeq(WirePairs(c)))

PairCircuits == {Direct, PassGate}

\* Input.set_value(value) on the same Input of both simulators.
PairSetValue ==
    /\ \E d \in devices, value \in LogicValue :
          /\ d.kind = "INPUT"
          /\ SetSim(set_value(Sim, d.terminal, value))
          /\ ref' = RefState(ref_set_value(ref.sim, d.terminal, value),
                             "set_value", <<d.terminal, value>>, ref.sim)
    /\ last' = "set_value"
    /\ UNCHANGED <<circuit, pc, iters, history, built, ticks_since_build, call>>

\* build_topology() on both simulators.
PairBuildTopology ==
    /\ SetSim(build_topology(Sim))
    /\ LET result == ref_build_topology(ref.sim)
       IN  ref' = [RefState([result.state EXCEPT !.built = TRUE],
                            "build_topology", <<>>, ref.sim)
                      EXCEPT !.outcome = result.outcome]
    /\ built' = TRUE
    /\ last' = "build_topology"
    /\ ticks_since_build' = 0
    /\ UNCHANGED <<circuit, pc, iters, history, call>>

\* tick() on both simulators.
PairTick ==
    /\ \E s \in RunTick(Sim, IterCap) : SetSim(s)
    /\ ref' = [RefState(ref_tick(ref.sim).state, "tick", <<>>, ref.sim)
                  EXCEPT !.outcome = ref_tick(ref.sim).outcome]
    /\ last' = "tick"
    /\ ticks_since_build' = IF ticks_since_build < 2 THEN ticks_since_build + 1
                            ELSE ticks_since_build
    /\ UNCHANGED <<circuit, pc, iters, history, built, call>>

PairInit ==
    /\ \E c \in PairCircuits :
          /\ InitCircuit(c)
          /\ ref = RefState(RefOf(c), "none", <<>>, RefOf(c))
    /\ call = NoCall

PairNext ==
    \/ PairSetValue
    \/ PairBuildTopology
    \/ PairTick

PairSpec == PairInit /\ [][PairNext]_vars

(***************************************************************************)
(* Rewiring: the tenth specification runs the incremental simulator on the *)
(* direct wire and on the pass gate and lets DeviceSimulator.connect and   *)
(* disconnect be called at any time between the other calls: on the two    *)
(* nodes of the direct wire, and on the source and the drain of the pass   *)
(* gate.  circuit.wires follows the wires declared.                        *)
(***************************************************************************)
RewireCircuits == {Direct, PassGate}

\* The pairs of nodes that connect and disconnect are called with.
RewirePairs ==
    IF circuit.name = "direct" THEN {<<0, 1>>, <<1, 0>>}
    ELSE {<<t.source, t.drain>> : t \in transistors}

\* DeviceSimulator.connect(a, b)
SimConnect ==
    /\ pc = "idle"
    /\ \E p \in RewirePairs :
          /\ connections' = Node_connect(connections, p[1], p[2])
          /\ circuit' = [circuit EXCEPT !.wires = @ \cup {Wire(p[1], p[2])}]
    /\ last' = "connect"
    /\ UNCHANGED <<devices, transistors, nodes, gates, find_transistor,
                   default_value, resolved_value, node_components,
                   dirty_node_components, find_node_component,
                   dirty_transistors, dirty,
                   pc, iters, history, built, ticks_since_build, call, ref>>

\* DeviceSimulator.disconnect(a, b)
SimDisconnect ==
    /\ pc = "idle"
    /\ \E p \in RewirePairs :
          /\ connections' = Node_disconnect(connections, p[1], p[2])
          /\ circuit' = [circuit EXCEPT !.wires = @ \ {Wire(p[1], p[2])}]
    /\ last' = "disconnect"
    /\ UNCHANGED <<devices, transistors, nodes, gates, find_transistor,
                   default_value, resolved_value, node_components,
                   dirty_node_components, find_node_component,
                   dirty_transistors, dirty,
                   pc, iters, history, built, ticks_since_build, call, ref>>

RewireInit ==
    /\ \E c \in RewireCircuits : InitCircuit(c)
    /\ call = NoCall
    /\ ref = NoRef

RewireNext ==
    \/ SetValue
    \/ BuildTopology
    \/ TickCall
    \/ TickIteration
    \/ TickReturn
    \/ SimConnect
    \/ SimDisconnect

RewireSpec == RewireInit /\ [][RewireNext]_vars

(***************************************************************************)
(* Notions the properties are stated with.                                 *)
(***************************************************************************)
\* tick has returned, build_topology having been called before it, and no
\* other call has returned since.
AfterTick == pc = "idle" /\ last = "tick" /\ built

\* The same, for the first tick that follows a build_topology.
AfterFirstTick == AfterTick /\ ticks_since_build = 1

\* The terminal of the circuit's Input, and of the Probe of the scenario.
InputNode == (CHOOSE d \in devices : d.kind = "INPUT").terminal
ProbeNode == (CHOOSE d \in devices : d.kind = "PROBE"
                 /\ \A e \in devices : e.kind = "PROBE" => d.terminal <= e.terminal).terminal

\* The nodes joined to a node of S by a path of the given edges.
RECURSIVE Closure(_, _)
Closure(edges, S) ==
    LET T == S \cup UNION {e \in edges : e \cap S # {}}
    IN  IF T = S THEN S ELSE Closure(edges, T)

\* The declared wires plus the channels of the transistors that conduct
\* under the current resolved gate values.
ConductingEdges ==
    circuit.wires
    \cup {Wire(t.source, t.drain) : t \in {u \in transistors : is_conducting(u, resolved_value)}}

\* The channel of t is open: t does not conduct and the simulator holds no
\* connection between its source and its drain.
ChannelOpen(t) ==
    /\ ~is_conducting(t, resolved_value)
    /\ t.drain \notin connections[t.source]

\* The iteration cap the design gives tick: 2 T + 16 for T transistors.
MAX_ITER == 2 * Cardinality(transistors) + 16

\* Node n changed its resolved value in one of the last two iterations.
Flipped(n) ==
    \E i \in 1 .. Len(history) :
        history[i][n] # (IF i = Len(history) THEN resolved_value ELSE history[i + 1])[n]

\* What build_topology and tick can give on a simulator that has just been
\* built for the same circuit and holds the same default values.
FreshSim ==
    RunTick(build_topology([InitialSim(circuit) EXCEPT !.default_value = default_value]),
            IterCap)

(***************************************************************************)
(* Properties.                                                             *)
(***************************************************************************)

\* C1: after tick returns, every connected component of the graph of the
\* declared wires and the conducting channels holds one resolved value, the
\* resolve_all of the default values of its nodes.
C1_ComponentsResolved ==
    AfterTick =>
        \A n \in nodes :
            resolved_value[n] =
                resolve_all(SetToSeq({default_value[m] : m \in Closure(ConductingEdges, {n})}))

\* C2: for an Input wired to a Probe, once build_topology has been called,
\* after every tick the Probe samples the value last set on the Input.
C2_DirectDrive ==
    (AfterTick /\ circuit.name = "direct") =>
        sample(Sim, ProbeNode) = default_value[InputNode]

\* C3: the loop of tick never makes more than MAX_ITER iterations.
C3_TickBounded == iters <= MAX_ITER

\* C4: when the loop of tick has made MAX_ITER iterations, tick has
\* returned and every node that flipped in the last two iterations holds X.
C4_NonConvergentReported ==
    iters >= MAX_ITER =>
        /\ pc = "idle"
        /\ \A n \in nodes : Flipped(n) => resolved_value[n] = X

\* C5: the resolved values after tick are those of a simulator that was just
\* built for the same circuit with the same default values: they do not
\* depend on the calls made before.
C5_HistoryIndependent ==
    (AfterTick /\ \A s \in FreshSim : ~s.dirty)
        => \E s \in FreshSim : resolved_value = s.resolved_value

\* C6: CMOS inverter: after tick the Probe samples ONE for Input ZERO, ZERO
\* for Input ONE, and for Input X or Z both channels are open and the Probe
\* samples Z.
C6_Inverter ==
    (AfterTick /\ circuit.name = "chain" /\ circuit.size = 1) =>
        LET v == default_value[InputNode]
        IN  /\ v = ZERO => sample(Sim, ProbeNode) = ONE
            /\ v = ONE => sample(Sim, ProbeNode) = ZERO
            /\ v \in {X, Z} => /\ sample(Sim, ProbeNode) = Z
                               /\ \A t \in transistors : ChannelOpen(t)

\* C7: after tick, every node of a net of wires that holds a VDD and a GND
\* resolves to X, and every transistor whose gate is on that net has its
\* channel open, NMOS and PMOS alike.
C7_ConflictNet ==
    AfterTick =>
        \A n \in nodes :
            LET net == Closure(circuit.wires, {n})
            IN  (\E v, g \in devices :
                    /\ v.kind = "VDD" /\ v.terminal \in net
                    /\ g.kind = "GND" /\ g.terminal \in net)
                => /\ resolved_value[n] = X
                   /\ \A t \in transistors : t.gate = n => ChannelOpen(t)

C7_Witness ==
    /\ AfterTick
    /\ circuit.name = "conflict"
    /\ sample(Sim, 2) = X
    /\ default_value[InputNode] = ONE
    /\ \E t \in transistors : t.kind = "NMOS" /\ resolved_value[t.gate] = X /\ ChannelOpen(t)
    /\ \E t \in transistors : t.kind = "PMOS" /\ resolved_value[t.gate] = X /\ ChannelOpen(t)

\* C8: pass gate: after tick the Probe samples ONE when the Input is ONE and
\* Z when the Input is ZERO.
C8_PassGate ==
    (AfterTick /\ circuit.name = "passgate") =>
        LET v == default_value[InputNode]
        IN  /\ v = ONE => sample(Sim, ProbeNode) = ONE
            /\ v = ZERO => sample(Sim, ProbeNode) = Z

\* C9 as stated: for a chain of an even number of inverters, after tick the
\* Probe samples ZERO when the Input is ONE and ONE when the Input is ZERO.
C9_ChainInverts ==
    (AfterTick /\ circuit.name = "chain" /\ circuit.size % 2 = 0) =>
        LET v == default_value[InputNode]
        IN  /\ v = ONE => sample(Sim, ProbeNode) = ZERO
            /\ v = ZERO => sample(Sim, ProbeNode) = ONE

\* C10 as stated: for a closed loop of an odd number of inverters, after
\* tick every node of the loop reads X.
C10_RingReadsX ==
    (AfterTick /\ circuit.name = "ring") =>
        \A n \in circuit.loop : resolved_value[n] = X

\* C10 amended: for a closed loop of an odd number of inverters with no
\* other driver, tick returns after at most one iteration and every node of
\* the loop reads Z afterwards.
C10_RingSettlesAtZ ==
    circuit.name = "ring" =>
        /\ iters <= 1
        /\ AfterTick => \A n \in circuit.loop : resolved_value[n] = Z

C10_Witness ==
    /\ AfterFirstTick
    /\ circuit.name = "ring" /\ circuit.size = 3
    /\ iters = 1
    /\ \A n \in circuit.loop : resolved_value[n] = Z
    /\ resolved_value[0] = ONE /\ resolved_value[1] = ZERO

\* C11: a chain of n inverters between an Input and a Probe settles within
\* n + 1 iterations of the loop of tick: the loop never makes more, and
\* after the (n + 1)-th the dirty flag is clear.
C11_ChainSettles ==
    circuit.name = "chain" =>
        /\ iters <= circuit.size + 1
        /\ (pc = "tick" /\ iters = circuit.size + 1 => ~dirty)

C11_Witness ==
    /\ AfterFirstTick
    /\ circuit.name = "chain"
    /\ circuit.size = 2
    /\ iters = circuit.size + 1
    /\ default_value[InputNode] = ONE
    /\ sample(Sim, ProbeNode) = ONE

\* A circuit has a combinational loop when the gate net of a transistor
\* can be reached from its own channel through wires and channels.
HasLoop ==
    LET edges == circuit.wires \cup {Wire(t.source, t.drain) : t \in transistors}
    IN  \E t \in transistors : t.gate \in Closure(edges, {t.source, t.drain})

\* C12 as stated: a circuit without a combinational loop settles in one
\* iteration of the loop of tick.
C12_AcyclicOnePass ==
    ~HasLoop /\ built /\ pc = "tick" /\ iters >= 1 => ~dirty

\* C12 amended: a circuit without a combinational loop settles in one
\* iteration of the loop of tick exactly when the resolve of that iteration
\* changes the resolved value of no gate node, and every iteration whose
\* resolve changes the value of a gate node is followed by another one.
C12_OnePassUnlessGateChanges ==
    /\ [](~HasLoop /\ pc = "tick" /\ iters = 1 =>
             (~dirty <=> \A g \in gates : resolved_value[g] = history[1][g]))
    /\ [][~HasLoop /\ pc = "tick" /\ dirty =>
             (dirty' <=> \E g \in gates : resolved_value'[g] # resolved_value[g])]_vars

\* tick has returned after one iteration on the pass gate, a circuit with
\* a transistor and no loop: the Input is Z, the gate stayed at Z and the
\* VDD net went from Z to ONE.
C12_Witness ==
    /\ pc = "idle" /\ last = "tick"
    /\ circuit.name = "passgate"
    /\ ~HasLoop
    /\ iters = 1
    /\ default_value[InputNode] = Z
    /\ \A g \in gates : resolved_value[g] = Z /\ history[1][g] = Z
    /\ \E n \in nodes : resolved_value[n] = ONE /\ history[1][n] = Z

(***************************************************************************)
(* Properties of the core classes, stated on the last call made.           *)
(***************************************************************************)
\* The call of op that was made has finished (returned or raised).
Returned(op) == call.op = op /\ call.outcome # "pending"

\* The two-driver table, entry by entry (row a, column b).
TwoDriverTable ==
    (<<ZERO, ZERO>> :> ZERO) @@ (<<ZERO, ONE>> :> X) @@ (<<ZERO, X>> :> X) @@ (<<ZERO, Z>> :> ZERO)
    @@ (<<ONE, ZERO>> :> X) @@ (<<ONE, ONE>> :> ONE) @@ (<<ONE, X>> :> X) @@ (<<ONE, Z>> :> ONE)
    @@ (<<X, ZERO>> :> X) @@ (<<X, ONE>> :> X) @@ (<<X, X>> :> X) @@ (<<X, Z>> :> X)
    @@ (<<Z, ZERO>> :> ZERO) @@ (<<Z, ONE>> :> ONE) @@ (<<Z, X>> :> X) @@ (<<Z, Z>> :> Z)

\* C13: for every pair (a, b), resolve(a, b) is the entry of the two-driver
\* table (a if a = b or b = Z, b if a = Z, otherwise X); resolve is
\* commutative and idempotent, Z is its identity and X absorbs.
C13_ResolveTable ==
    Returned("resolve") =>
        LET a == call.args[1]
            b == call.args[2]
        IN  /\ call.value = TwoDriverTable[<<a, b>>]
            /\ call.value = (IF a = b \/ b = Z THEN a ELSE IF a = Z THEN b ELSE X)
            /\ call.value = resolve(b, a)
            /\ (a = b => call.value = a)
            /\ (b = Z => call.value = a)
            /\ (a = Z => call.value = b)
            /\ (a = X \/ b = X => call.value = X)

C13_Witness ==
    /\ Returned("resolve")
    /\ call.args = <<ZERO, ONE>>
    /\ call.value = X

\* C14: resolve is associative: resolve(resolve(a, b), c) equals
\* resolve(a, resolve(b, c)) for all a, b, c.
C14_ResolveAssociative ==
    Returned("resolve_nested") => call.value[1] = call.value[2]

C14_Witness ==
    /\ Returned("resolve_nested")
    /\ call.args = <<ZERO, ONE, ONE>>
    /\ call.value = <<X, X>>

\* The left fold of resolve over vs, starting from acc.
RECURSIVE FoldResolve(_, _)
FoldResolve(vs, acc) ==
    IF vs = <<>> THEN acc ELSE FoldResolve(Tail(vs), resolve(acc, Head(vs)))

\* The values that occur in vs.
Elements(vs) == {vs[i] : i \in DOMAIN vs}

\* C15: resolve_all(vs) is the left fold of resolve over vs from Z: X if vs
\* holds X or both ZERO and ONE, else the one value of vs that is not Z,
\* else Z; resolve_all([v]) = v; the result depends on neither the order
\* nor the multiplicity of the elements.
C15_ResolveAllIsFold ==
    Returned("resolve_all") =>
        LET vs == call.args
            S == Elements(vs)
        IN  /\ call.outcome = "return"
            /\ call.value = FoldResolve(vs, Z)
            /\ call.value = (IF X \in S \/ (ZERO \in S /\ ONE \in S) THEN X
                             ELSE IF S \ {Z} # {} THEN CHOOSE v \in S \ {Z} : TRUE
                             ELSE Z)
            /\ (Len(vs) = 1 => call.value = vs[1])
            /\ \A ws \in ValueSeqs : Elements(ws) = S => resolve_all(ws) = call.value

C15_Witness ==
    /\ Returned("resolve_all")
    /\ call.args = <<ZERO, Z, ONE>>
    /\ call.value = X

\* C16: resolve_all of an empty collection returns Z and raises nothing.
C16_EmptyReturnsZ ==
    Returned("resolve_all") /\ call.args = <<>> =>
        call.outcome = "return" /\ call.value = Z

C16_Witness ==
    /\ Returned("resolve_all")
    /\ call.args = <<>>
    /\ call.value = Z

\* C17 as stated: resolve_all of an empty list raises ValueError.
C17_EmptyRaises ==
    Returned("resolve_all") /\ Len(call.args) = 0 => call.outcome = "ValueError"

\* C17 as the code has it: resolve_all of an empty list raises no
\* ValueError; it returns Z, the identity of resolve.
C17_EmptyListIsIdentity ==
    Returned("resolve_all") /\ Len(call.args) = 0 =>
        /\ call.outcome # "ValueError"
        /\ call.outcome = "return"
        /\ \A v \in LogicValue : resolve(call.value, v) = v /\ resolve(v, call.value) = v

C17_Witness ==
    /\ Returned("resolve_all")
    /\ Len(call.args) = 0
    /\ call.outcome = "return"
    /\ resolve(call.value, ONE) = ONE

\* C18: an NMOS conducts exactly when its gate's resolved value is ONE, a
\* PMOS exactly when it is ZERO; for X and Z neither conducts.
C18_ConductionRule ==
    Returned("is_conducting") =>
        LET kind == call.args[1]
            g == call.args[2]
        IN  /\ (kind = "NMOS" => (call.value <=> g = ONE))
            /\ (kind = "PMOS" => (call.value <=> g = ZERO))
            /\ (g \in {X, Z} => ~call.value)

C18_Witness ==
    /\ Returned("is_conducting")
    /\ call.args = <<"NMOS", X>>
    /\ call.value = FALSE

\* C19 as stated: constructing an NMOS or PMOS in which two of gate, source
\* and drain are the same node raises ValueError, whichever pair coincides.
C19_SharedNodesValueError ==
    Returned("new_transistor") =>
        LET gate == call.args[2]
            source == call.args[3]
            drain == call.args[4]
        IN  (gate = source \/ gate = drain \/ source = drain)
                => call.outcome = "ValueError"

\* C19 as the code has it: no transistor is constructed when two of the
\* three nodes coincide; the error is ValueError when source and drain are
\* the same BASE node (the gate being a GATE node), and TypeError when the
\* gate is also the source or the drain, that node not having both kinds.
C19_SharedNodesRejected ==
    Returned("new_transistor") =>
        LET gate == call.args[2]
            source == call.args[3]
            drain == call.args[4]
        IN  /\ (gate = source \/ gate = drain \/ source = drain)
                   => call.outcome \in {"ValueError", "TypeError"}
                      /\ call.value = NoTransistor
            /\ (source = drain /\ source.kind = "BASE" /\ gate.kind = "GATE")
                   => call.outcome = "ValueError"
            /\ (gate = source \/ gate = drain) => call.outcome = "TypeError"

C19_Witness ==
    /\ Returned("new_transistor")
    /\ call.args = <<"NMOS", Node(0, "GATE"), Node(1, "BASE"), Node(1, "BASE"), 1>>
    /\ call.outcome = "ValueError"
    /\ call.value = NoTransistor

\* C20: constructing an NMOS or PMOS whose gate is not a GATE node, or whose
\* source or drain is not a BASE node, raises TypeError and yields no
\* transistor.
C20_WrongKindTypeError ==
    Returned("new_transistor") =>
        LET gate == call.args[2]
            source == call.args[3]
            drain == call.args[4]
        IN  (gate.kind # "GATE" \/ source.kind # "BASE" \/ drain.kind # "BASE")
                => call.outcome = "TypeError" /\ call.value = NoTransistor

C20_Witness ==
    /\ Returned("new_transistor")
    /\ call.args = <<"PMOS", Node(0, "GATE"), Node(1, "GATE"), Node(2, "BASE"), 1>>
    /\ call.outcome = "TypeError"
    /\ call.value = NoTransistor

(***************************************************************************)
(* Wires of the reference simulator.                                       *)
(***************************************************************************)
\* The wires of simulator r as a set of unordered pairs.
WireSet(r) == {{r.wires[i][1], r.wires[i][2]} : i \in 1..Len(r.wires)}

\* Nodes a and b are joined by a wire of simulator r.
Wired(r, a, b) == {a, b} \in WireSet(r)

\* C21: after any sequence of connect and disconnect calls the wire list
\* holds no pair (a, a), holds every pair as (min, max) and holds no pair
\* twice; connect(a, a) changes nothing, and connect(a, b) when a and b are
\* already wired, in either argument order, changes nothing.
C21_WireListCanonical ==
    LET w == ref.sim.wires
    IN  /\ \A i \in 1..Len(w) : w[i][1] < w[i][2]
        /\ \A i, j \in 1..Len(w) :
              i # j => {w[i][1], w[i][2]} # {w[j][1], w[j][2]}
        /\ ref.op = "connect" /\ ref.args[1] = ref.args[2]
              => ref.sim = ref.before
        /\ ref.op = "connect" /\ Wired(ref.before, ref.args[1], ref.args[2])
              => ref.sim = ref.before

\* connect(2, 1) was called on a simulator whose wires held (1, 2) and
\* another wire.
C21_Witness ==
    /\ ref.op = "connect"
    /\ ref.args = <<2, 1>>
    /\ Wired(ref.before, 1, 2)
    /\ Len(ref.before.wires) >= 2

\* C22 as stated: for any wire set and any two nodes, connect(a, b)
\* followed by disconnect of the same two nodes, in either argument order,
\* leaves the wire set as it was before the connect.
C22_RoundTrip ==
    ref.op = "connect;disconnect" => WireSet(ref.sim) = WireSet(ref.before)

\* C22 as the code has it: the round trip restores the wire set, and the
\* wire list, when the two nodes were not wired to each other before the
\* connect (two different nodes that were wired end up unwired).
C22_RoundTripWhenNew ==
    ref.op = "connect;disconnect"
        => IF Wired(ref.before, ref.args[1], ref.args[2])
           THEN WireSet(ref.sim) = WireSet(ref.before) \ {{ref.args[1], ref.args[2]}}
           ELSE /\ WireSet(ref.sim) = WireSet(ref.before)
                /\ ref.sim.wires = ref.before.wires

\* connect(0, 2) then disconnect(2, 0) on a simulator in which 0 and 2 were
\* not wired and another wire existed.
C22_Witness ==
    /\ ref.op = "connect;disconnect"
    /\ ref.args = <<2, 0>>
    /\ ~Wired(ref.before, 0, 2)
    /\ Len(ref.before.wires) >= 1

\* C23: after any sequence of connect and disconnect calls the wire index
\* agrees with the wire list: its keys are exactly the pairs in the list
\* and the index of wires[i] is i, also after a disconnect that swap-pops a
\* wire out of the middle of the list or removes the last wire.
C23_IndexAgrees ==
    LET w == ref.sim.wires
    IN  /\ DOMAIN ref.sim.wires_cache = {w[i] : i \in 1..Len(w)}
        /\ \A i \in 1..Len(w) : ref.sim.wires_cache[w[i]] = i - 1

\* A disconnect removed the wire at position 0 of a list of three, so
\* that the last wire moved into its place.
C23_Witness ==
    /\ ref.op = "disconnect"
    /\ Len(ref.before.wires) = 3
    /\ Len(ref.sim.wires) = 2
    /\ ref.sim.wires[1] = ref.before.wires[3]

(***************************************************************************)
(* Topology of the reference simulator.                                    *)
(***************************************************************************)
\* The members of a list.
Members(list) == {list[i] : i \in 1..Len(list)}

\* C24: after build_topology, static_neighbors has one list per node and is
\* exactly the symmetric adjacency of the current wire list: for every wire
\* (a, b), b is in static_neighbors[a] and a is in static_neighbors[b], and
\* no list holds a neighbour that no wire joins to its node.
C24_StaticAdjacency ==
    ref.op \in BuildOps =>
        LET r == ref.sim
        IN  /\ Len(r.static_neighbors) = Len(r.nodes)
            /\ \A i \in 1..Len(r.wires) :
                  /\ InRange(r.static_neighbors, r.wires[i][1])
                  /\ InRange(r.static_neighbors, r.wires[i][2])
                  /\ r.wires[i][2] \in Members(r.static_neighbors[r.wires[i][1] + 1])
                  /\ r.wires[i][1] \in Members(r.static_neighbors[r.wires[i][2] + 1])
            /\ \A n \in 1..Len(r.static_neighbors) :
                  \A m \in Members(r.static_neighbors[n]) : Wired(r, n - 1, m)

\* The topology fields of simulator r.
Topology(r) == <<r.static_neighbors, r.dynamic_neighbors>>

\* Simulator r as it would be had build_topology never been called.
NeverBuilt(r) ==
    [r EXCEPT !.built = StateExtension.built,
              !.static_neighbors = StateExtension.static_neighbors,
              !.dynamic_neighbors = StateExtension.dynamic_neighbors]

\* C25: build_topology is idempotent: two calls in a row leave the state of
\* the first, and a call made after the wires changed leaves the topology
\* that a first build of the current wires gives, with nothing of the
\* earlier one.
C25_BuildIdempotent ==
    /\ ref.op = "build_topology;build_topology" => ref.sim = ref.before
    /\ ref.op \in BuildOps /\ ref.before.built
          => Topology(ref.sim)
                 = Topology(ref_build_topology(NeverBuilt(ref.before)).state)

\* C26: after build_topology has been called, connect and disconnect (and
\* the creation of a device or transistor) fail with a RegistrationError
\* and leave wires, nodes, devices, transistors and the built topology
\* unchanged.
C26_FrozenAfterBuild ==
    ref.before.built /\ ref.op \in {"connect", "disconnect"}
        => /\ ref.outcome = "RegistrationError"
           /\ ref.sim = ref.before

\* C27: tick called before build_topology has ever been called fails with
\* a UseBeforeBuildError: it never completes silently.  (tick has returned
\* normally exactly when TickReturn has set last to "tick".)
C27_NoTickBeforeBuild ==
    ~built => ~(pc = "idle" /\ last = "tick")

(***************************************************************************)
(* Default values.                                                         *)
(***************************************************************************)
\* The nodes that are terminals of transistors.
TransistorTerminals == UNION {{t.gate, t.source, t.drain} : t \in transistors}

\* What the devices' constructors and the last set_value call make of the
\* default values.
DefaultsAsDriven ==
    /\ \A d \in devices :
          /\ d.kind = "VDD" => default_value[d.terminal] = ONE
          /\ d.kind = "GND" => default_value[d.terminal] = ZERO
          /\ d.kind \in {"PROBE", "PORT"} => default_value[d.terminal] = Z
          /\ d.kind = "INPUT" =>
                /\ call.op # "set_value" => default_value[d.terminal] = Z
                /\ call.op = "set_value" /\ call.args[1] = d.terminal
                      => default_value[d.terminal] = call.args[2]
    /\ \A n \in TransistorTerminals : default_value[n] = Z

\* A step changes the default value of a node only if it is a set_value
\* call on the Input of that node.
DefaultsOnlySet ==
    \A n \in nodes :
        default_value'[n] # default_value[n]
            => /\ pc = "idle" /\ pc' = "idle" /\ last' = "set_value"
               /\ call'.op = "set_value" /\ call'.args[1] = n

\* C29: a VDD terminal's default value is always ONE and a GND terminal's
\* always ZERO; an Input's default is Z until set_value is called and
\* afterwards is the last value set; Probe, Port and transistor terminals
\* keep default Z; tick and build_topology never change a default value.
C29_DefaultValues == []DefaultsAsDriven /\ [][DefaultsOnlySet]_vars

\* An Input was set to ONE and a tick has since run to its end, in a
\* circuit with a VDD, a GND and a transistor.
C29_Witness ==
    /\ call.op = "set_value" /\ call.args[2] = ONE
    /\ pc = "idle" /\ last = "tick" /\ iters >= 2
    /\ \E d \in devices : d.kind = "VDD"
    /\ \E d \in devices : d.kind = "GND"
    /\ transistors # {}

(***************************************************************************)
(* Creation on the reference simulator.                                    *)
(***************************************************************************)
\* The ids of the nodes of transistor t.
TerminalIds(t) == {t.gate.id, t.source.id, t.drain.id}

\* C28: after any sequence of create calls every device owns exactly one
\* BASE node, no node belongs to two devices, to a device and a transistor
\* or to two transistors, every transistor has a GATE-kind gate and two
\* distinct BASE-kind channel nodes, and every GATE node is the gate of
\* exactly one transistor.
C28_NodeOwnership ==
    LET r == ref.sim
        D == 1..Len(r.devices)
        T == 1..Len(r.transistors)
    IN  /\ ref.op = "create_device" => Len(r.devices) = Len(ref.before.devices) + 1
        /\ ref.op = "create_transistor"
              => Len(r.transistors) = Len(ref.before.transistors) + 1
        /\ \A i \in D : r.devices[i].terminal.kind = "BASE"
        /\ \A i, j \in D :
              i # j => r.devices[i].terminal.id # r.devices[j].terminal.id
        /\ \A i \in D, j \in T :
              r.devices[i].terminal.id \notin TerminalIds(r.transistors[j])
        /\ \A i, j \in T :
              i # j => TerminalIds(r.transistors[i]) \cap TerminalIds(r.transistors[j]) = {}
        /\ \A j \in T :
              /\ r.transistors[j].gate.kind = "GATE"
              /\ r.transistors[j].source.kind = "BASE"
              /\ r.transistors[j].drain.kind = "BASE"
              /\ Cardinality(TerminalIds(r.transistors[j])) = 3
        /\ \A n \in RefNodes(r) :
              n.kind = "GATE"
                  => Cardinality({j \in T : r.transistors[j].gate = n}) = 1
        /\ Len(r.nodes) = Len(r.devices) + 3 * Len(r.transistors)
        /\ Cardinality(RefNodes(r)) = Len(r.nodes)

\* Two transistors and a device between them have been created.
C28_Witness ==
    /\ Len(ref.sim.transistors) = 2
    /\ Len(ref.sim.devices) = 1
    /\ ref.sim.devices[1].terminal.id = 3
    /\ ref.op = "create_transistor"

\* C30: node ids, device ids and transistor ids are each allocated 0, 1,
\* 2, ... by three independent counters: the k-th allocation in a category
\* returns k - 1 whatever was allocated in the other two, and no id is
\* returned twice within a category.
C30_IndependentCounters ==
    LET r == ref.sim
    IN  /\ \A k \in 1..Len(r.devices) : r.devices[k].id = k - 1
        /\ \A k \in 1..Len(r.transistors) : r.transistors[k].id = k - 1
        /\ \A k \in 1..Len(r.nodes) : r.nodes[k].id = k - 1
        /\ ref.op = "create_device"
              => ref.args = <<Len(ref.before.devices), Len(ref.before.nodes)>>
        /\ ref.op = "create_transistor"
              => ref.args = <<Len(ref.before.transistors), Len(ref.before.nodes),
                              Len(ref.before.nodes) + 1, Len(ref.before.nodes) + 2>>

\* The second device was created after a transistor: it got device id 1
\* and node id 4 while the transistor got transistor id 0.
C30_Witness ==
    /\ ref.op = "create_device"
    /\ ref.args = <<1, 4>>
    /\ Len(ref.sim.transistors) = 1
    /\ ref.sim.transistors[1].id = 0

(***************************************************************************)
(* Masks.                                                                  *)
(***************************************************************************)
\* The values whose bits are set in a mask, in some order.
MaskValues(mask) == SetToSeq({v \in {ZERO, ONE, X} : BitOr(mask % 8, v) = mask % 8})

\* C31: for every 8-bit mask, resolve_all_byte(mask) returns the LogicValue
\* that resolve_all gives for the values whose bits are set in the mask: Z
\* for 000, ZERO for 001, ONE for 010, X for every other mask.
C31_ByteMask ==
    Returned("resolve_all_byte") =>
        LET mask == call.args[1]
        IN  /\ call.outcome = "return"
            /\ call.value = IF mask = 0 THEN Z
                            ELSE IF mask = 1 THEN ZERO
                            ELSE IF mask = 2 THEN ONE
                            ELSE X
            /\ mask < 8 => call.value = resolve_all(MaskValues(mask))

(***************************************************************************)
(* Ticks of the reference simulator.                                       *)
(***************************************************************************)
\* The transistors of simulator r that conduct.
Conducting(r) ==
    {i \in 1..Len(r.transistors) : ref_is_conducting(r, r.transistors[i])}

\* How often m occurs in a list.
Count(list, m) == Cardinality({k \in 1..Len(list) : list[k] = m})

\* tick of the reference simulator has returned without raising.
TickReturned == ref.op = "tick" /\ ref.outcome = "return"

\* C35: after every rebuild of the dynamic topology, dynamic_neighbors is
\* exactly the symmetric adjacency of the transistors that conduct under
\* the current resolved gate values: source and drain list each other for
\* each conducting transistor, a non-conducting transistor contributes
\* nothing, and no edge of an earlier rebuild remains.
C35_DynamicAdjacency ==
    TickReturned =>
        LET r == ref.sim
        IN  /\ Len(r.dynamic_neighbors) = Len(r.nodes)
            /\ \A n \in 1..Len(r.nodes), m \in 0..(Len(r.nodes) - 1) :
                  Count(r.dynamic_neighbors[n], m) =
                      Cardinality({i \in Conducting(r) :
                          {r.transistors[i].source.id, r.transistors[i].drain.id}
                              = {n - 1, m}})

\* tick returned with the NMOS conducting and the PMOS not, after a tick
\* in which the PMOS conducted.
C35_Witness ==
    /\ TickReturned
    /\ Len(ref.sim.transistors) = 2
    /\ Conducting(ref.sim) = {1}
    /\ ref.before.dynamic_neighbors[5] = <<5>>
    /\ ref.sim.dynamic_neighbors[2] = <<2>>

\* The static and dynamic edges of simulator r, as unordered pairs.
NeighborEdges(r) ==
    UNION {{{n - 1, m} : m \in Members(r.static_neighbors[n])
                               \cup Members(r.dynamic_neighbors[n])}
           : n \in 1..Len(r.static_neighbors)}

\* The smallest member of a non-empty list of numbers.
Smallest(list) == CHOOSE m \in Members(list) : \A k \in Members(list) : m <= k

\* C36: the component builder partitions the nodes: every node id in
\* [0, N) lies in exactly one component, component_id[n] is the position of
\* that component, two nodes share a component exactly when a path of
\* static or dynamic edges joins them, components are numbered in
\* increasing order of their smallest node id, and an empty circuit yields
\* no components.
C36_ComponentsPartition ==
    TickReturned =>
        LET r == ref.sim
            N == Len(r.nodes)
            C == 1..Len(r.components)
        IN  /\ \A n \in 0..(N - 1) :
                  Cardinality({p \in {<<c, k>> : c \in C, k \in 1..N} :
                                  /\ p[2] <= Len(r.components[p[1]])
                                  /\ r.components[p[1]][p[2]] = n}) = 1
            /\ \A c \in C : Members(r.components[c]) \subseteq 0..(N - 1)
            /\ \A c \in C : r.components[c] # <<>>
            /\ Len(r.component_id) = N
            /\ \A n \in 0..(N - 1) :
                  /\ r.component_id[n + 1] + 1 \in C
                  /\ n \in Members(r.components[r.component_id[n + 1] + 1])
            /\ \A n \in 0..(N - 1) :
                  Members(r.components[r.component_id[n + 1] + 1])
                      = Closure(NeighborEdges(r), {n})
            /\ \A c, d \in C :
                  c < d => Smallest(r.components[c]) < Smallest(r.components[d])
            /\ N = 0 => r.components = <<>> /\ r.component_id = <<>>

\* tick returned with the VDD, the NMOS source and drain and the PMOS
\* source in one component, the last two joined through the NMOS channel
\* and the wire (2, 4), and the PMOS drain in another.
C36_Witness ==
    /\ TickReturned
    /\ Len(ref.sim.nodes) = 7
    /\ ~Wired(ref.sim, 1, 2)
    /\ ref.sim.component_id[7] = ref.sim.component_id[5]
    /\ ref.sim.component_id[6] # ref.sim.component_id[5]
    /\ Len(ref.sim.components) = 4

\* C38: after any sequence of create calls the node list is aligned with
\* the ids: nodes[i].id = i for every position i, and likewise for devices
\* and transistors, so that every node id is an index into the arrays that
\* build_topology builds.
C38_ListsAligned ==
    LET r == ref.sim
    IN  /\ \A i \in 1..Len(r.nodes) : r.nodes[i].id = i - 1
        /\ \A i \in 1..Len(r.devices) :
              /\ r.devices[i].id = i - 1
              /\ r.nodes[r.devices[i].terminal.id + 1] = r.devices[i].terminal
        /\ \A i \in 1..Len(r.transistors) :
              /\ r.transistors[i].id = i - 1
              /\ r.nodes[r.transistors[i].gate.id + 1] = r.transistors[i].gate
              /\ r.nodes[r.transistors[i].source.id + 1] = r.transistors[i].source
              /\ r.nodes[r.transistors[i].drain.id + 1] = r.transistors[i].drain
        /\ ref.op \in BuildOps =>
              \A i \in 1..Len(r.nodes) :
                  /\ r.nodes[i].id + 1 \in DOMAIN r.static_neighbors
                  /\ r.nodes[i].id + 1 \in DOMAIN r.dynamic_neighbors

\* build_topology returned on a simulator with a device, a transistor and
\* another device, created in that order.
C38_Witness ==
    /\ ref.op = "build_topology"
    /\ Len(ref.sim.devices) = 2
    /\ Len(ref.sim.transistors) = 1
    /\ ref.sim.transistors[1].gate.id = 1
    /\ Len(ref.sim.static_neighbors) = 5

(***************************************************************************)
(* Registration.                                                           *)
(***************************************************************************)
\* The terminal nodes of a device or transistor x.
TerminalsOf(x) ==
    IF "terminal" \in DOMAIN x THEN {x.terminal} ELSE {x.gate, x.source, x.drain}

\* x is registered in the collections c.
RegisteredIn(c, x) == x \in c.devices \cup c.transistors

\* No node of x is a terminal of another device or transistor registered
\* in the collections c.
OwnsItsNodes(c, x) ==
    \A y \in (c.devices \cup c.transistors) \ {x} : TerminalsOf(y) \cap TerminalsOf(x) = {}

\* C39 as stated: registering a device or transistor adds it and all its
\* terminal nodes, unregistering it afterwards restores the device,
\* transistor, node, gate and gate-to-transistor collections to their state
\* before the registration, and unregistering something that is not
\* registered changes nothing.
C39_RegisterUnregister ==
    LET x == call.args[1]
    IN  /\ call.op = "register" =>
              /\ RegisteredIn(Collections(Sim), x)
              /\ TerminalsOf(x) \subseteq nodes
        /\ call.op = "register;unregister" => Collections(Sim) = call.value
        /\ call.op = "unregister" /\ ~RegisteredIn(call.value, x)
              => Collections(Sim) = call.value

\* C39 as the code has it: the same, for a device or transistor that was
\* not registered before the registration and none of whose nodes is a
\* terminal of another registered device or transistor.
C39_RegisterUnregisterOwn ==
    LET x == call.args[1]
    IN  /\ call.op = "register" =>
              /\ RegisteredIn(Collections(Sim), x)
              /\ TerminalsOf(x) \subseteq nodes
        /\ call.op = "register;unregister"
              /\ ~RegisteredIn(call.value, x) /\ OwnsItsNodes(call.value, x)
              => Collections(Sim) = call.value
        /\ call.op = "unregister"
              /\ ~RegisteredIn(call.value, x) /\ OwnsItsNodes(call.value, x)
              => Collections(Sim) = call.value

\* The NMOS was registered and unregistered at once, the GND being
\* registered and the NMOS not, before.
C39_Witness ==
    /\ call.op = "register;unregister"
    /\ call.args = <<Transistor("NMOS", 3)>>
    /\ call.value.devices = {Device("GND", 1)}
    /\ call.value.transistors = {}
    /\ devices = {Device("GND", 1)}

(***************************************************************************)
(* Wires and channels over a tick.                                         *)
(***************************************************************************)
\* a and b hold each other in their connection sets.
Joined(a, b) == b \in connections[a] /\ a \in connections[b]

\* The source and the drain of t are joined by something else than the
\* channel of t: a declared wire, or the channel of another transistor that
\* conducts.
JoinedOtherwise(t) ==
    \/ Wire(t.source, t.drain) \in circuit.wires
    \/ \E u \in transistors \ {t} :
          /\ {u.source, u.drain} = {t.source, t.drain}
          /\ is_conducting(u, resolved_value)

\* C33: tick never adds or removes a declared wire.  When tick has returned
\* every declared wire is still a connection, a wire between the source and
\* the drain of a transistor that does not conduct included, and the
\* channel of a transistor that does not conduct, and has nothing else
\* across it, is not a connection.
C33_WiresSurviveTick ==
    AfterTick =>
        /\ \A w \in circuit.wires : \A a, b \in w : a # b => Joined(a, b)
        /\ \A t \in transistors :
              ~is_conducting(t, resolved_value) /\ ~JoinedOtherwise(t)
              => ~Joined(t.source, t.drain)

(***************************************************************************)
(* Component bookkeeping of the incremental simulator.                     *)
(***************************************************************************)
\* The pairs of nodes that hold each other as connections.
ConnectionEdges ==
    UNION {{{a, b} : b \in connections[a] \cap nodes} : a \in nodes}

\* build_topology or tick has returned, build_topology having been called,
\* and no other call has returned since.
AfterBuildOrTick == pc = "idle" /\ built /\ last \in {"build_topology", "tick"}

\* C40: after build_topology and after every tick that follows it, the
\* components are pairwise disjoint and cover the registered nodes, the
\* node-to-component map sends each node to the component that holds it,
\* each component is a connected component of the current connections, and
\* when tick returns no component and no transistor is dirty.
C40_BookkeepingConsistent ==
    AfterBuildOrTick =>
        /\ \A c, e \in node_components : c # e => c.nodes \cap e.nodes = {}
        /\ UNION {c.nodes : c \in node_components} = nodes
        /\ DOMAIN find_node_component = nodes
        /\ \A n \in nodes :
              /\ find_node_component[n] \in node_components
              /\ n \in find_node_component[n].nodes
        /\ \A c \in node_components :
              /\ c.nodes # {}
              /\ \A n \in c.nodes : Closure(ConnectionEdges, {n}) = c.nodes
        /\ last = "tick" => dirty_node_components = {} /\ dirty_transistors = {}

(***************************************************************************)
(* The loop of tick.                                                       *)
(***************************************************************************)
\* C37: within a tick, a pass of the loop is followed by another exactly
\* when its resolve changed the resolved value of a gate node; a pass that
\* changes base nodes only, or nothing, ends the tick, and when tick has
\* returned every transistor that conducts under the final gate values has
\* its source and drain joined, and one that does not conduct has them
\* joined by nothing but a declared wire or another transistor's channel.
C37_GateChangeContinues ==
    /\ [][pc = "tick" /\ dirty =>
             (dirty' <=> \E g \in gates : resolved_value'[g] # resolved_value[g])]_vars
    /\ [](pc = "idle" /\ last = "tick" =>
             \A t \in transistors :
                 /\ is_conducting(t, resolved_value) => Joined(t.source, t.drain)
                 /\ ~is_conducting(t, resolved_value) /\ ~JoinedOtherwise(t)
                     => ~Joined(t.source, t.drain))

(***************************************************************************)
(* Visiting orders.                                                        *)
(***************************************************************************)
\* C34: the resolved values after tick do not depend on the visiting
\* order.  When tick has returned, every node has the resolved value that
\* every visiting order of the tick gives from the same simulator.
C34_OrderIndependent ==
    pc = "idle" /\ last = "tick" /\ call.op = "tick" /\ call.outcome = "return"
        => \A s \in RunTick(call.value, IterCap) : resolved_value = s.resolved_value

(***************************************************************************)
(* The two simulators.                                                     *)
(***************************************************************************)
\* C32: the incremental and the reference simulator are observably
\* equivalent.  After each tick made on both, on the same circuit and after
\* the same set_value calls, every node has the same resolved value in
\* both.
C32_SameResolvedValues ==
    last = "tick" /\ ref.op = "tick"
        => \A n \in nodes : resolved_value[n] = ref.sim.resolved_value[n]

====
